---- MODULE Spec2Model ----
(***************************************************************************)
(* Model of the timetable importer (TimetableImporter component): the      *)
(* heuristic grid parser (processExcelData / parseSlotHeuristically), the  *)
(* review surface (slot edits, LTP cross-check) and the commit to the      *)
(* store (handleUploadToDB).                                               *)
(*                                                                         *)
(* Text is modelled at character level: a text is a sequence of one-       *)
(* character strings, and every regular expression of the source is        *)
(* written down as data (a list of alternatives, each a list of atoms)     *)
(* and run by a backtracking matcher with JavaScript's priorities          *)
(* (leftmost start, alternatives in order, greedy quantifiers).            *)
(***************************************************************************)
EXTENDS Integers, Sequences, FiniteSets, TLC

(***************************************************************************)
(* Characters                                                              *)
(***************************************************************************)
UpperSeq ==
  << "A","B","C","D","E","F","G","H","I","J","K","L","M",
     "N","O","P","Q","R","S","T","U","V","W","X","Y","Z" >>

LowerSeq ==
  << "a","b","c","d","e","f","g","h","i","j","k","l","m",
     "n","o","p","q","r","s","t","u","v","w","x","y","z" >>

Upper == { UpperSeq[i] : i \in 1..26 }

Lower == { LowerSeq[i] : i \in 1..26 }

Digit == { "0","1","2","3","4","5","6","7","8","9" }

AlNum == Upper \cup Lower \cup Digit

\* \s of a JavaScript regular expression (the members a sheet cell can hold)
WS == { " ", "\n", "\t", "\r" }

\* U+2013 EN DASH and U+0421 CYRILLIC ES, named because TLA+ strings are ASCII
EnDash == "EnDash"

CyrEs == "CyrEs"

Punct == { "(", ")", "-", ".", ",", "&", "/", ":", "|", "_", EnDash, CyrEs }

\* every character of the model: the complement of a negated class [^...]
Alphabet == AlNum \cup WS \cup Punct

LetterIndex(seq, c) == CHOOSE i \in 1..26 : seq[i] = c

\* String.prototype.toUpperCase / toLowerCase, one character
UpChar(c) == IF c \in Lower THEN UpperSeq[LetterIndex(LowerSeq, c)] ELSE c

LowChar(c) == IF c \in Upper THEN LowerSeq[LetterIndex(UpperSeq, c)] ELSE c

toUpperCase(t) == [ i \in 1..Len(t) |-> UpChar(t[i]) ]

toLowerCase(t) == [ i \in 1..Len(t) |-> LowChar(t[i]) ]

\* both cases of the letters of a set: a class under the /i flag
AnyCase(S) == { UpChar(c) : c \in S } \cup { LowChar(c) : c \in S }

(***************************************************************************)
(* Regular expressions as data                                             *)
(*   atom  = [k |-> "cls", cls, min, max]  (max = -1: unbounded)           *)
(*         | [k |-> "eol"]  ($)   | [k |-> "bol"]  (^)                     *)
(*   regex = sequence of alternatives, each a sequence of atoms            *)
(***************************************************************************)
Rep(S, lo, hi) == [ k |-> "cls", cls |-> S, min |-> lo, max |-> hi ]

One(S) == Rep(S, 1, 1)

Opt(S) == Rep(S, 0, 1)

Star(S) == Rep(S, 0, -1)

Plus(S) == Rep(S, 1, -1)

Lit(c) == One({c})

\* a letter under the /i flag
LitI(c) == One(AnyCase({c}))

Eol == [ k |-> "eol", cls |-> {}, min |-> 0, max |-> 0 ]

Bol == [ k |-> "bol", cls |-> {}, min |-> 0, max |-> 0 ]

NoMatch == [ ok |-> FALSE, start |-> 0, ends |-> << >>, alt |-> 0 ]

Least(S) == CHOOSE x \in S : \A y \in S : x <= y

Greatest(S) == CHOOSE x \in S : \A y \in S : y <= x

\* the longest run of characters of S starting at pos, capped at cap (cap < 0: no cap)
RunLen(S, t, pos, cap) ==
  LET left == IF pos > Len(t) THEN 0 ELSE Len(t) - pos + 1
      lim == IF cap >= 0 /\ cap < left THEN cap ELSE left
      other == { i \in pos..(pos + lim - 1) : t[i] \notin S }
  IN  IF other = {} THEN lim ELSE Least(other) - pos

\* The atoms k.. of one alternative matched at pos, by backtracking: the result of
\* the first successful path, ends[j] being the position after atom k+j-1.
RECURSIVE MatchFrom(_, _, _, _)
RECURSIVE TryLen(_, _, _, _, _)
MatchFrom(atoms, k, t, pos) ==
  IF k > Len(atoms) THEN [ ok |-> TRUE, ends |-> << >> ]
  ELSE IF atoms[k].k = "cls"
       THEN TryLen(atoms, k, t, pos, RunLen(atoms[k].cls, t, pos, atoms[k].max))
       ELSE IF (atoms[k].k = "eol" /\ pos = Len(t) + 1) \/ (atoms[k].k = "bol" /\ pos = 1)
            THEN LET r == MatchFrom(atoms, k + 1, t, pos)
                 IN  [ ok |-> r.ok, ends |-> << pos >> \o r.ends ]
            ELSE [ ok |-> FALSE, ends |-> << >> ]

\* greedy: the longest repetition (at most n) after which the rest matches
TryLen(atoms, k, t, pos, n) ==
  LET tries == { << j, MatchFrom(atoms, k + 1, t, pos + j) >> : j \in atoms[k].min..n }
      good == { x \in tries : x[2].ok }
      best == CHOOSE x \in good : \A y \in good : y[1] <= x[1]
  IN  IF good = {} THEN [ ok |-> FALSE, ends |-> << >> ]
      ELSE [ ok |-> TRUE, ends |-> << pos + best[1] >> \o best[2].ends ]

\* the alternatives in order at one start position
RECURSIVE MatchAlts(_, _, _, _)
MatchAlts(re, a, t, pos) ==
  IF a > Len(re) THEN NoMatch
  ELSE LET r == MatchFrom(re[a], 1, t, pos)
       IN  IF r.ok THEN [ ok |-> TRUE, start |-> pos, ends |-> r.ends, alt |-> a ]
           ELSE MatchAlts(re, a + 1, t, pos)

\* the leftmost of a set of matches
Leftmost(found) ==
  IF found = {} THEN NoMatch ELSE CHOOSE m \in found : \A n \in found : m.start <= n.start

\* String.prototype.match without /g: the leftmost match at or after pos
Search(re, t, pos) ==
  Leftmost({ m \in { MatchAlts(re, 1, t, p) : p \in pos..(Len(t) + 1) } : m.ok })

Match(re, t) == Search(re, t, 1)

\* position after the whole match
MatchEnd(m) == IF Len(m.ends) = 0 THEN m.start ELSE m.ends[Len(m.ends)]

\* the text between two positions (from inclusive, to exclusive)
Slice(t, from, to) == IF to <= from THEN << >> ELSE SubSeq(t, from, to - 1)

\* the text matched by atoms i..j of the alternative that matched
Group(t, m, i, j) ==
  Slice(t, IF i = 1 THEN m.start ELSE m.ends[i - 1], m.ends[j])

\* t with the text of the match m replaced
Splice(t, m, repl) ==
  IF ~m.ok THEN t ELSE Slice(t, 1, m.start) \o repl \o Slice(t, MatchEnd(m), Len(t) + 1)

\* String.prototype.replace(re, repl) without /g: the first match replaced
ReplaceFirst(re, t, repl) == Splice(t, Match(re, t), repl)

\* String.prototype.replace(re, repl) with /g, for expressions that match no empty text
RECURSIVE ReplaceAllFrom(_, _, _, _)
ReplaceAllFrom(re, t, repl, pos) ==
  LET Rest(m) ==
        IF ~m.ok THEN Slice(t, pos, Len(t) + 1)
        ELSE Slice(t, pos, m.start) \o repl \o ReplaceAllFrom(re, t, repl, MatchEnd(m))
  IN  Rest(Search(re, t, pos))

ReplaceAll(re, t, repl) == ReplaceAllFrom(re, t, repl, 1)

\* String.prototype.trim
Trim(t) ==
  LET inked == { i \in 1..Len(t) : t[i] \notin WS }
  IN  IF inked = {} THEN << >> ELSE SubSeq(t, Least(inked), Greatest(inked))

\* String.prototype.includes
Includes(t, w) ==
  \E i \in 1..(Len(t) - Len(w) + 1) : SubSeq(t, i, i + Len(w) - 1) = w

\* the first occurrence of the text w in t, 0 when there is none (String.prototype.indexOf + 1)
IndexOf(t, w) ==
  IF Includes(t, w)
  THEN CHOOSE i \in 1..(Len(t) - Len(w) + 1) :
         /\ SubSeq(t, i, i + Len(w) - 1) = w
         /\ \A j \in 1..(i - 1) : SubSeq(t, j, j + Len(w) - 1) # w
  ELSE 0

\* String.prototype.replace(w, repl) with a string pattern: the first occurrence of w
StrReplace(t, w, repl) ==
  LET i == IndexOf(t, w)
  IN  IF i = 0 THEN t
      ELSE Slice(t, 1, i) \o repl \o Slice(t, i + Len(w), Len(t) + 1)

\* the characters of t that are in S, in order
Keep(t, S) == SelectSeq(t, LAMBDA c : c \in S)

\* decimal digits of a natural number (Number.prototype.toString)
RECURSIVE NumToText(_)
NumToText(n) ==
  IF n < 10 THEN << CHOOSE d \in Digit : d = ToString(n) >>
  ELSE NumToText(n \div 10) \o NumToText(n % 10)

DigitValue(d) == CHOOSE v \in 0..9 : ToString(v) = d

\* the value of a text of decimal digits (parseInt / Number of such a text)
RECURSIVE TextToNum(_)
TextToNum(t) ==
  IF Len(t) = 0 THEN 0
  ELSE 10 * TextToNum(SubSeq(t, 1, Len(t) - 1)) + DigitValue(t[Len(t)])

IsDigits(t) == Len(t) > 0 /\ \A i \in 1..Len(t) : t[i] \in Digit

(***************************************************************************)
(* Constants and helper functions of the importer                          *)
(***************************************************************************)
IGNORE_EXACT ==
  << << "L", "U", "N", "C", "H" >>, << "B", "R", "E", "A", "K" >>, << "R", "E", "C", "E", "S", "S" >>, << "T", "E", "A" >>, << "T", "I", "M", "E", " ", "T", "A", "B", "L", "E" >>, << "D", "E", "P", "A", "R", "T", "M", "E", "N", "T" >> >>

IGNORE_KEYWORDS ==
  << << "B", "A", "S", "K", "E", "T" >>, << "M", "D", "M" >>, << "H", "S", "M", "C" >>, << "O", "P", "E", "N", " ", "E", "L", "E", "C", "T", "I", "V", "E" >>, << "P", "R", "O", "G", "R", "A", "M", " ", "E", "L", "E", "C", "T", "I", "V", "E" >>,
     << "M", "I", "N", "O", "R" >>, << "M", "I", "N", "O", "R", "S" >> >>

DAYS == << << "M", "O", "N" >>, << "T", "U", "E" >>, << "W", "E", "D" >>, << "T", "H", "U" >>, << "F", "R", "I" >> >>

TYPES == << "Lecture", "Tutorial", "Practical" >>

TBA == << "T", "B", "A" >>

All == << "A", "l", "l" >>

Unknown == << "U", "n", "k", "n", "o", "w", "n" >>

SecPrefix == << "S", "e", "c", " " >>

Undefined == << "u", "n", "d", "e", "f", "i", "n", "e", "d" >>

NaN == << "N", "a", "N" >>

\* variant: every() where the code has some()
InSeqEvery(x, seq) == \A i \in 1..Len(seq) : seq[i] = x

InSeq(x, seq) == \E i \in 1..Len(seq) : seq[i] = x

\* str.replace(/[^a-zA-Z0-9]/g, '').toUpperCase()
normalizeIgnore(str) == toUpperCase(Keep(str, AlNum))

\* String(val).replace(/CYRILLIC ES/g,'C').replace(/EN DASH/g,'-').replace(/\s+/g,' ').trim()
sanitize(val) ==
  LET a == [ i \in 1..Len(val) |->
               IF val[i] = CyrEs THEN "C" ELSE IF val[i] = EnDash THEN "-" ELSE val[i] ]
  IN  Trim(ReplaceAll(<< << Plus(WS) >> >>, a, << " " >>))

\* /\s*-\s*/
DashRe == << << Star(WS), Lit("-"), Star(WS) >> >>

\* /([A-Z]+)(\d+)/
PrefixNumberRe == << << Plus(Upper), Plus(Digit) >> >>

normalizeRoom(val) ==
  LET Dashed(clean, m) ==
        IF ~m.ok THEN clean
        ELSE Slice(clean, 1, m.start) \o Group(clean, m, 1, 1) \o << "-" >>
               \o Group(clean, m, 2, 2) \o Slice(clean, MatchEnd(m), Len(clean) + 1)
      Numbered(clean) == Dashed(clean, Match(PrefixNumberRe, clean))
  IN  IF Len(val) = 0 \/ val = TBA THEN TBA
      ELSE Numbered(toUpperCase(
             ReplaceAll(<< << Plus(WS) >> >>, ReplaceFirst(DashRe, val, << "-" >>), << "-" >>)))

\* String.prototype.split(':') : the parts of t between colons
RECURSIVE SplitOn(_, _)
SplitOn(t, S) ==
  LET run == RunLen(Alphabet \ S, t, 1, -1)
  IN  IF run = Len(t) THEN << t >>
      ELSE << SubSeq(t, 1, run) >> \o SplitOn(Slice(t, run + 2, Len(t) + 1), S)

\* parseInt of a text: its leading digits (NaN when there are none)
ParseIntText(t) ==
  LET run == RunLen(Digit, t, 1, -1)
  IN  IF run = 0 THEN NaN ELSE NumToText(TextToNum(SubSeq(t, 1, run)))

to24Hour(timeStr) ==
  LET Hour(h) ==
        IF h = NaN THEN NaN
        ELSE IF TextToNum(h) >= 1 /\ TextToNum(h) <= 7 THEN NumToText(TextToNum(h) + 12) ELSE h
      Joined(parts) ==
        Hour(ParseIntText(parts[1])) \o << ":" >>
          \o (IF Len(parts) >= 2 THEN parts[2] ELSE Undefined)
  IN  IF Len(timeStr) = 0 THEN << >> ELSE Joined(SplitOn(timeStr, {":"}))

\* Number(text) printed back: digits give their value, the empty text 0, anything else NaN
NumberText(t) ==
  IF Len(t) = 0 THEN << "0" >> ELSE IF IsDigits(t) THEN NumToText(TextToNum(t)) ELSE NaN

padStart2(t) == IF Len(t) < 2 THEN << "0" >> \o t ELSE t

addTwoHours(timeStr) ==
  LET Later(h) == IF h = NaN THEN NaN ELSE NumToText(TextToNum(h) + 2)
      Joined(parts) ==
        Later(NumberText(parts[1])) \o << ":" >>
          \o (IF Len(parts) >= 2 THEN padStart2(NumberText(parts[2])) ELSE Undefined)
  IN  IF Len(timeStr) = 0 THEN << >> ELSE Joined(SplitOn(timeStr, {":"}))

(***************************************************************************)
(* parseSlotHeuristically: one cleaned line of a cell                      *)
(***************************************************************************)
\* /\((L|T|P)\)/i
TypeRe == << << Lit("("), One(AnyCase({"L", "T", "P"})), Lit(")") >> >>

\* /\(((?:CC[1-3]|LT)\s*[-]?\s*\d{4})\)/i
RoomRe ==
  << << Lit("("), LitI("C"), LitI("C"), One({"1", "2", "3"}),
        Star(WS), Opt({"-"}), Star(WS), Rep(Digit, 4, 4), Lit(")") >>,
     << Lit("("), LitI("L"), LitI("T"),
        Star(WS), Opt({"-"}), Star(WS), Rep(Digit, 4, 4), Lit(")") >> >>

\* /\(([A-Z0-9\s-]{3,})\)$/
RoomFallbackRe ==
  << << Lit("("), Rep(Upper \cup Digit \cup WS \cup {"-"}, 3, -1), Lit(")"), Eol >> >>

\* /(?:Sec|Group)\.?\s*([A-Z0-9-/]{1,5})/i
SecRe ==
  << << LitI("S"), LitI("e"), LitI("c"),
        Opt({"."}), Star(WS), Rep(AnyCase(Upper) \cup Digit \cup {"-", "/"}, 1, 5) >>,
     << LitI("G"), LitI("r"), LitI("o"), LitI("u"), LitI("p"),
        Opt({"."}), Star(WS), Rep(AnyCase(Upper) \cup Digit \cup {"-", "/"}, 1, 5) >> >>

\* /\s+[-EN DASH]\s+/g
SpacedDashRe == << << Plus(WS), One({"-", EnDash}), Plus(WS) >> >>

\* the whole text of a match (match[0])
Whole(t, m) == Slice(t, m.start, MatchEnd(m))

\* the type letter mapped to the slot type; no marker means Lecture
TypeOfCode(code) ==
  IF code = "T" THEN "Tutorial" ELSE IF code = "P" THEN "Practical" ELSE "Lecture"

Skipped(reason, text) ==
  [ skipped |-> TRUE, reason |-> reason, text |-> text,
    subject |-> << >>, type |-> "Lecture", section |-> All, room |-> TBA ]

\* text.match(roomRegex) || text.match(fallback)
RoomMatch(text) ==
  LET m == Match(RoomRe, text) IN IF m.ok THEN m ELSE Match(RoomFallbackRe, text)

\* the parenthesised group of a room match: all atoms between "(" and ")"
RoomGroup(text, m) ==
  IF Match(RoomRe, text).ok
  THEN Group(text, m, 2, Len(RoomRe[m.alt]) - 1)
  ELSE Group(text, m, 2, 2)

\* the result record: the ignore list is consulted first, a subject shorter than two
\* characters is refused last
SlotResult(text0, type, room, section, subject) ==
  IF \E i \in 1..Len(IGNORE_EXACT) : normalizeIgnore(IGNORE_EXACT[i]) = normalizeIgnore(text0)
  THEN Skipped("Ignored Garbage", text0)
  ELSE IF Len(subject) < 2
       THEN Skipped("Subject empty after cleanup", text0)
       ELSE [ skipped |-> FALSE, reason |-> "", text |-> text0,
              subject |-> subject, type |-> type, section |-> section, room |-> room ]

\* text.replace(match[0], ' ') when there is a match
Cut(text, m) == IF m.ok THEN StrReplace(text, Whole(text, m), << " " >>) ELSE text

\* 4. the subject: what is left, without spaced dashes and parentheses
ExtractSubject(text) ==
  Trim(Keep(Trim(ReplaceAll(SpacedDashRe, text, << " " >>)), Alphabet \ {"(", ")"}))

\* 3. the section
ExtractSection(text0, type, room, text) ==
  LET secMatch == Match(SecRe, text)
  IN  SlotResult(text0, type, room,
                 IF secMatch.ok
                 THEN SecPrefix \o Group(text, secMatch, Len(SecRe[secMatch.alt]),
                                          Len(SecRe[secMatch.alt]))
                 ELSE All,
                 ExtractSubject(Cut(text, secMatch)))

\* 2. the room
ExtractRoom(text0, type, text) ==
  LET roomMatch == RoomMatch(text)
  IN  ExtractSection(text0, type,
                     IF roomMatch.ok THEN normalizeRoom(RoomGroup(text, roomMatch)) ELSE TBA,
                     Cut(text, roomMatch))

\* 1. the type marker
ExtractType(text0) ==
  LET typeMatch == Match(TypeRe, text0)
  IN  ExtractRoom(text0,
                  IF typeMatch.ok THEN TypeOfCode(UpChar(Group(text0, typeMatch, 2, 2)[1]))
                  ELSE "Lecture",
                  Cut(text0, typeMatch))

parseSlotHeuristically(rawText) == ExtractType(Trim(rawText))

(***************************************************************************)
(* The sheet: rows of cell texts (row and column indices are 0-based, as   *)
(* in the source) and the merged spans of the sheet                        *)
(***************************************************************************)
NumRows(rows) == Len(rows)

Row(rows, r) == rows[r + 1]

\* row[c]; a column the row does not have reads as undefined, which sanitize turns into ''
Cell(row, c) == IF c >= 0 /\ c < Len(row) THEN row[c + 1] ELSE << >>

\* the value of a decimal numeral (digits, optionally a point and digits) times 1440, rounded
DecimalRe == << << Bol, Plus(Digit), Opt({"."}), Star(Digit), Eol >>,
                << Bol, Lit("."), Plus(Digit), Eol >> >>

RECURSIVE Pow10(_)
Pow10(k) == IF k = 0 THEN 1 ELSE 10 * Pow10(k - 1)

\* Math.round(Number(val) * 24 * 60) for a decimal numeral
TotalMinutes(sVal) ==
  LET parts == SplitOn(sVal, {"."})
      whole == parts[1]
      frac == IF Len(parts) >= 2 THEN parts[2] ELSE << >>
      n == TextToNum(whole \o frac)
      d == Pow10(Len(frac))
  IN  (2 * n * 24 * 60 + d) \div (2 * d)

formatExcelTime(val) ==
  LET Clock(total) ==
        NumToText(total \div 60) \o << ":" >> \o padStart2(NumToText(total % 60))
      Format(sVal) ==
        IF Len(sVal) = 0 THEN << >>
        ELSE IF Includes(sVal, << ":" >>) \/ Includes(sVal, << "-" >>)
             THEN StrReplace(sVal, << "." >>, << ":" >>)
             ELSE IF Match(DecimalRe, sVal).ok THEN Clock(TotalMinutes(sVal)) ELSE sVal
  IN  Format(Trim(val))

(***************************************************************************)
(* processExcelData, 1: header detection                                   *)
(***************************************************************************)
TIME_ROW_INDEX == 1

\* /(\d{1,2}[:.]?\d{2})\s*[-to]+\s*(\d{1,2}[:.]?\d{2})/i
\* variant: the separator between hours and minutes is required
TimeRangeReStrict ==
  << << Rep(Digit, 1, 2), One({":", "."}), Rep(Digit, 2, 2),
        Star(WS), Plus(AnyCase({"-", "t", "o"})), Star(WS),
        Rep(Digit, 1, 2), One({":", "."}), Rep(Digit, 2, 2) >> >>

TimeRangeRe ==
  << << Rep(Digit, 1, 2), Opt({":", "."}), Rep(Digit, 2, 2),
        Star(WS), Plus(AnyCase({"-", "t", "o"})), Star(WS),
        Rep(Digit, 1, 2), Opt({":", "."}), Rep(Digit, 2, 2) >> >>

\* the time range of one header cell: [ok, start, end]
HeaderCellTime(cell) ==
  LET Range(start, end) ==
        IF Len(start) > 0 /\ Len(end) > 0 THEN [ ok |-> TRUE, start |-> start, end |-> end ]
        ELSE [ ok |-> FALSE, start |-> << >>, end |-> << >> ]
      Times(t, m) ==
        IF m.ok
        THEN Range(to24Hour(StrReplace(Group(t, m, 1, 3), << "." >>, << ":" >>)),
                   to24Hour(StrReplace(Group(t, m, 7, 9), << "." >>, << ":" >>)))
        ELSE [ ok |-> FALSE, start |-> << >>, end |-> << >> ]
      Header(t) == Times(t, Match(TimeRangeRe, t))
  IN  Header(formatExcelTime(cell))

\* colToTime: the columns of the header row that hold a time range
DetectHeader(headerRow) ==
  LET Table(found) ==
        [ c \in { x[1] : x \in found } |->
            [ start |-> (CHOOSE x \in found : x[1] = c)[2].start,
              end |-> (CHOOSE x \in found : x[1] = c)[2].end ] ]
  IN  Table({ x \in { << c, HeaderCellTime(Cell(headerRow, c)) >> :
                        c \in 0..(Len(headerRow) - 1) } : x[2].ok })

\* Object.keys(colToTime).map(Number).sort((a, b) => a - b)
RECURSIVE SortedCols(_)
SortedCols(S) ==
  IF S = {} THEN << >>
  ELSE LET lo == CHOOSE c \in S : \A d \in S : c <= d
       IN  << lo >> \o SortedCols(S \ {lo})

(***************************************************************************)
(* processExcelData, 2: the metadata header                                *)
(***************************************************************************)
\* row.map(c => String(c).toLowerCase()).join(' ')
RECURSIVE JoinLower(_)
JoinLower(row) ==
  IF Len(row) = 0 THEN << >>
  ELSE IF Len(row) = 1 THEN toLowerCase(row[1])
       ELSE toLowerCase(row[1]) \o << " " >> \o JoinLower(Tail(row))

IsMetadataHeader(row) ==
  /\ Includes(JoinLower(row), << "c", "o", "u", "r", "s", "e", " ", "c", "o", "d", "e" >>)
  /\ Includes(JoinLower(row), << "f", "a", "c", "u", "l", "t", "i", "e", "s" >>)

\* /l.?t.?p|hours|credit/i  (the text tested holds no line break)
LtpsColRe ==
  << << LitI("l"), Opt(Alphabet), LitI("t"), Opt(Alphabet), LitI("p") >>,
     << LitI("h"), LitI("o"), LitI("u"), LitI("r"), LitI("s") >>,
     << LitI("c"), LitI("r"), LitI("e"), LitI("d"), LitI("i"), LitI("t") >> >>

\* String(cell).toLowerCase().replace(/[\s()]/g, '')
HeaderKey(cell) == Keep(toLowerCase(cell), Alphabet \ (WS \cup {"(", ")"}))

\* the column indices after the cells 0..c of a metadata header row were inspected
RECURSIVE ScanHeaderCells(_, _, _)
ScanHeaderCells(row, c, idx) ==
  IF c < 0 THEN idx
  ELSE LET prev == ScanHeaderCells(row, c - 1, idx)
           cStr == HeaderKey(Cell(row, c))
       IN  [ metadataStartRow |-> prev.metadataStartRow,
             codeColIdx |-> IF Includes(cStr, << "c", "o", "u", "r", "s", "e", "c", "o", "d", "e" >>) THEN c ELSE prev.codeColIdx,
             nameColIdx |-> IF Includes(cStr, << "c", "o", "u", "r", "s", "e", "n", "a", "m", "e" >>) THEN c ELSE prev.nameColIdx,
             facultyColIdx |-> IF Includes(cStr, << "f", "a", "c", "u", "l", "t", "i", "e", "s" >>) \/ Includes(cStr, << "f", "a", "c", "u", "l", "t", "y" >>)
                               THEN c ELSE prev.facultyColIdx,
             ltpsColIdx |-> IF Match(LtpsColRe, cStr).ok THEN c ELSE prev.ltpsColIdx ]

NoMetadata ==
  [ metadataStartRow |-> -1, codeColIdx |-> 0, nameColIdx |-> 2,
    ltpsColIdx |-> -1, facultyColIdx |-> 3 ]

\* rows.forEach: every row 0..r that holds both tokens sets the header row and the
\* columns it names (a later matching row overwrites an earlier one)
RECURSIVE ScanMetadataHeader(_, _)
ScanMetadataHeader(rows, r) ==
  IF r < 0 THEN NoMetadata
  ELSE LET prev == ScanMetadataHeader(rows, r - 1)
       IN  IF IsMetadataHeader(Row(rows, r))
           THEN ScanHeaderCells(Row(rows, r), Len(Row(rows, r)) - 1,
                                [ prev EXCEPT !.metadataStartRow = r ])
           ELSE prev

(***************************************************************************)
(* processExcelData, 2: the metadata rows                                  *)
(***************************************************************************)
\* a map (JavaScript object used as a dictionary) with one key set
Put(map, key, val) == (key :> val) @@ map

\* map[key], undefined reading as the empty text
Get(map, key) == IF key \in DOMAIN map THEN map[key] ELSE << >>

EmptyMap == [ k \in {} |-> << >> ]

DefaultKey == << "d", "e", "f", "a", "u", "l", "t" >>

\* the n-th number of "3-1-0-0": parts.map(parseInt) with NaN and a missing part read as 0
LtpsPart(parts, n) ==
  IF n > Len(parts) THEN 0
  ELSE LET v == ParseIntText(Trim(parts[n])) IN IF v = NaN THEN 0 ELSE TextToNum(v)

\* rawLtps.split(/[-EN DASH]/) destructured into L, T, P, S
ParseLtps(rawLtps) ==
  LET parts == SplitOn(rawLtps, {"-", EnDash})
  IN  [ L |-> LtpsPart(parts, 1), T |-> LtpsPart(parts, 2),
        P |-> LtpsPart(parts, 3), S |-> LtpsPart(parts, 4) ]

\* the lookahead of /,(?![^(]*\))/ at position pos: some ")" comes before the next "("
ClosesParen(t, pos) ==
  \E j \in pos..(pos + RunLen(Alphabet \ {"("}, t, pos, -1) - 1) : t[j] = ")"

\* rawFaculty.split(/,(?![^(]*\))/): split at the commas outside parentheses
RECURSIVE SplitFaculty(_, _, _)
SplitFaculty(t, from, pos) ==
  LET commas == { i \in pos..Len(t) : t[i] = "," /\ ~ClosesParen(t, i + 1) }
  IN  IF commas = {} THEN << Slice(t, from, Len(t) + 1) >>
      ELSE << Slice(t, from, Least(commas)) >>
             \o SplitFaculty(t, Least(commas) + 1, Least(commas) + 1)

\* /([^(]+)\(([^)]+)\)/
NameSectionsRe ==
  << << Plus(Alphabet \ {"("}), Lit("("), Plus(Alphabet \ {")"}), Lit(")") >> >>

RECURSIVE PutSectionsBare(_, _, _)
PutSectionsBare(profs, sections, pName) ==
  IF Len(sections) = 0 THEN profs
  ELSE LET key == Trim(StrReplace(Trim(sections[1]), << "S", "e", "c" >>, << >>))
       IN  PutSectionsBare(Put(profs, key, pName), Tail(sections), pName)

\* sections.forEach: profs[key] = pName; profs[`Sec ${key}`] = pName
RECURSIVE PutSections(_, _, _)
PutSections(profs, sections, pName) ==
  IF Len(sections) = 0 THEN profs
  ELSE LET key == Trim(StrReplace(Trim(sections[1]), << "S", "e", "c" >>, << >>))
       IN  PutSections(Put(Put(profs, key, pName), SecPrefix \o key, pName),
                       Tail(sections), pName)

\* parts.forEach over the comma-separated parts of the faculty text
RECURSIVE PutFacultyParts(_, _, _)
PutFacultyParts(profs, parts, n) ==
  LET WithDefault(withSecs, pName) ==
        IF Len(parts) = 1 THEN Put(withSecs, DefaultKey, pName) ELSE withSecs
      Named(cleanP, m, pName) ==
        WithDefault(PutSections(profs, SplitOn(Group(cleanP, m, 3, 3), {",", "&"}), pName),
                    pName)
      Part(cleanP, m) ==
        IF m.ok THEN Named(cleanP, m, Trim(Group(cleanP, m, 1, 1)))
        ELSE IF Len(cleanP) > 0 THEN Put(profs, DefaultKey, cleanP) ELSE profs
      Cleaned(cleanP) == Part(cleanP, Match(NameSectionsRe, cleanP))
  IN  IF n > Len(parts) THEN profs
      ELSE PutFacultyParts(Cleaned(Trim(parts[n])), parts, n + 1)

\* the section -> instructor map of one metadata row
ParseFaculty(rawFaculty) ==
  LET profs == Put(EmptyMap, DefaultKey, Unknown)
  IN  IF Len(rawFaculty) > 0 /\ toLowerCase(rawFaculty) # toLowerCase(Unknown)
      THEN PutFacultyParts(profs, SplitFaculty(rawFaculty, 1, 1), 1)
      ELSE profs

NoMaps ==
  [ facultyMap |-> EmptyMap, subjectNameMap |-> EmptyMap, subjectLtpsMap |-> EmptyMap,
    diagnostics |-> << >> ]

\* one metadata row whose code cell is not empty, added to the maps
MetadataEntry(prev, code, name, rawFaculty, rawLtps) ==
  IF Len(code) = 0 THEN prev
  ELSE [ facultyMap |-> Put(prev.facultyMap, code, ParseFaculty(rawFaculty)),
         subjectNameMap |-> IF Len(name) > 0 THEN Put(prev.subjectNameMap, code, name)
                            ELSE prev.subjectNameMap,
         subjectLtpsMap |-> IF Len(rawLtps) > 0
                            THEN Put(prev.subjectLtpsMap, code, ParseLtps(rawLtps))
                            ELSE prev.subjectLtpsMap,
         diagnostics |-> Append(prev.diagnostics,
                                [ code |-> code, name |-> name,
                                  facultyString |->
                                    IF Len(rawFaculty) > 0 THEN rawFaculty
                                    ELSE << "E", "m", "p", "t", "y" >> ]) ]

\* the body of the loop over the metadata rows
ReadMetadataRow(prev, md, row) ==
  IF Len(Cell(row, md.codeColIdx)) = 0 THEN prev
  ELSE MetadataEntry(prev, sanitize(Cell(row, md.codeColIdx)),
                     sanitize(Cell(row, md.nameColIdx)), sanitize(Cell(row, md.facultyColIdx)),
                     IF md.ltpsColIdx # -1 THEN sanitize(Cell(row, md.ltpsColIdx)) ELSE << >>)

\* the maps after the metadata rows metadataStartRow+1 .. r were read
RECURSIVE ReadMetadataRows(_, _, _)
ReadMetadataRows(rows, md, r) ==
  IF md.metadataStartRow = -1 \/ r <= md.metadataStartRow THEN NoMaps
  ELSE ReadMetadataRow(ReadMetadataRows(rows, md, r - 1), md, Row(rows, r))

(***************************************************************************)
(* processExcelData, 3: the grid                                           *)
(***************************************************************************)
\* /(\))(\s+)([A-Z][A-Za-z0-9]{1,})/g
BreakRe == << << Lit(")"), Plus(WS), One(Upper), Rep(AlNum, 1, -1) >> >>

\* cellText.replace(BreakRe, '$1\n$3'): a line break after a ")" that a word follows
RECURSIVE InsertBreaks(_, _)
InsertBreaks(t, pos) ==
  LET Rest(m) ==
        IF ~m.ok THEN Slice(t, pos, Len(t) + 1)
        ELSE Slice(t, pos, m.start) \o << ")", "\n" >> \o Group(t, m, 3, 4)
               \o InsertBreaks(t, MatchEnd(m))
  IN  Rest(Search(BreakRe, t, pos))

\* a part of split(/\r?\n/): the carriage return before the line break belongs to the break
DropCr(t) == IF Len(t) > 0 /\ t[Len(t)] = "\r" THEN SubSeq(t, 1, Len(t) - 1) ELSE t

\* the elements of a sequence of texts that are not blank
RECURSIVE NonBlank(_)
NonBlank(parts) ==
  IF Len(parts) = 0 THEN << >>
  ELSE (IF Len(Trim(parts[1])) > 0 THEN << parts[1] >> ELSE << >>) \o NonBlank(Tail(parts))

\* cellText.split(/\r?\n/).filter(l => l.trim().length > 0)
SplitLines(t) ==
  LET parts == SplitOn(t, {"\n"})
  IN  NonBlank([ i \in 1..Len(parts) |-> IF i < Len(parts) THEN DropCr(parts[i]) ELSE parts[i] ])

\* new RegExp(k, 'gi')
KeywordRe(k) == << [ i \in 1..Len(k) |-> LitI(k[i]) ] >>

\* IGNORE_KEYWORDS.forEach: the keywords 1..n removed from the line, one after the other
RECURSIVE RemoveKeywords(_, _)
RemoveKeywords(line, n) ==
  IF n = 0 THEN line
  ELSE ReplaceAll(KeywordRe(IGNORE_KEYWORDS[n]), RemoveKeywords(line, n - 1), << >>)

\* /^[-:\s\d]+/
LeadingRe == << << Bol, Plus({"-", ":"} \cup WS \cup Digit) >> >>

CleanLine(line) ==
  Trim(ReplaceFirst(LeadingRe, RemoveKeywords(sanitize(line), Len(IGNORE_KEYWORDS)), << >>))

\* merges.find(m => m.s.r === r && m.s.c === c): the first span whose top-left is (r, c)
FindMerge(merges, r, c) ==
  LET hits == { i \in 1..Len(merges) : merges[i].s.r = r /\ merges[i].s.c = c }
  IN  IF hits = {} THEN 0 ELSE CHOOSE i \in hits : \A j \in hits : i <= j

\* variant: the span's left edge (mergeRange.s.c) where the code has its right edge
FinalEndLeftEdge(merges, colToTime, r, c, type) ==
  LET i == FindMerge(merges, r, c)
  IN  IF i # 0
      THEN (IF merges[i].s.c \in DOMAIN colToTime THEN colToTime[merges[i].s.c].end
            ELSE colToTime[c].end)
      ELSE IF type = "Practical" THEN addTwoHours(colToTime[c].start)
           ELSE colToTime[c].end

\* the end time of a slot of the cell (r, c)
FinalEnd(merges, colToTime, r, c, type) ==
  LET i == FindMerge(merges, r, c)
  IN  IF i # 0
      THEN (IF merges[i].e.c \in DOMAIN colToTime THEN colToTime[merges[i].e.c].end
            ELSE colToTime[c].end)
      ELSE IF type = "Practical" THEN addTwoHours(colToTime[c].start)
           ELSE colToTime[c].end

\* profMap[section] || profMap[shortGroup] || profMap.default
SpecificProf(facultyMap, subject, section) ==
  LET profMap == IF subject \in DOMAIN facultyMap THEN facultyMap[subject]
                 ELSE Put(EmptyMap, DefaultKey, Unknown)
      shortGroup == Trim(StrReplace(section, SecPrefix, << >>))
  IN  IF Len(Get(profMap, section)) > 0 THEN Get(profMap, section)
      ELSE IF Len(Get(profMap, shortGroup)) > 0 THEN Get(profMap, shortGroup)
           ELSE Get(profMap, DefaultKey)

NoOutput == [ slots |-> << >>, debugRows |-> << >> ]

\* extractedSlots and debugRows after the pushes of a, then those of b
Join(a, b) == [ slots |-> a.slots \o b.slots, debugRows |-> a.debugRows \o b.debugRows ]

\* the body of lines.forEach once the line is cleaned and parsed: what it pushes.  ctx
\* holds the locals of processExcelData (merges, colToTime, the metadata maps, currentDay).
\* srcRow and srcCol record the cell a record came from; the program does not keep them.
\* The id of a slot is given when the pushes are put in order (see Numbered).
EmitLine(ctx, r, c, cleanLine, result) ==
  IF ~result.skipped /\ Len(result.subject) > 0
  THEN [ slots |->
           << [ day |-> ctx.currentDay,
                timeStart |-> ctx.colToTime[c].start,
                timeEnd |-> FinalEnd(ctx.merges, ctx.colToTime, r, c, result.type),
                subjectCode |-> result.subject,
                type |-> result.type,
                section |-> result.section,
                room |-> result.room,
                facultyName |-> SpecificProf(ctx.maps.facultyMap, result.subject,
                                             result.section),
                rawString |-> cleanLine,
                isMinor |-> Includes(toLowerCase(Get(ctx.maps.subjectNameMap, result.subject)),
                                     << "m", "i", "n", "o", "r" >>),
                srcRow |-> r, srcCol |-> c ] >>,
         debugRows |->
           << [ rowNum |-> r + 1, rawText |-> cleanLine, status |-> "Parsed",
                reason |-> "", srcCol |-> c ] >> ]
  ELSE IF ~InSeq(toUpperCase(cleanLine), IGNORE_EXACT)
       THEN [ slots |-> << >>,
              debugRows |->
                << [ rowNum |-> r + 1, rawText |-> cleanLine, status |-> "Failed",
                     reason |-> result.reason, srcCol |-> c ] >> ]
       ELSE NoOutput

\* if (cleanLine.length < 2) return; otherwise the line is parsed
ProcessCleanLine(ctx, r, c, cleanLine) ==
  IF Len(cleanLine) < 2 THEN NoOutput
  ELSE EmitLine(ctx, r, c, cleanLine, parseSlotHeuristically(cleanLine))

\* the body of lines.forEach for one line of the cell (r, c)
ProcessLine(ctx, r, c, line) == ProcessCleanLine(ctx, r, c, CleanLine(line))

\* lines.forEach: the lines n.. of a cell, in order
RECURSIVE ProcessLines(_, _, _, _, _)
ProcessLines(ctx, r, c, lines, n) ==
  IF n > Len(lines) THEN NoOutput
  ELSE Join(ProcessLine(ctx, r, c, lines[n]), ProcessLines(ctx, r, c, lines, n + 1))

\* the cell text, unless it is an ignored word or too short, split into lines
ProcessCellText(ctx, r, c, cellText) ==
  IF InSeq(toUpperCase(cellText), IGNORE_EXACT) THEN NoOutput
  ELSE IF Len(cellText) > 2
       THEN ProcessLines(ctx, r, c, SplitLines(InsertBreaks(cellText, 1)), 1)
       ELSE NoOutput

\* the body of the loop over the time columns for the cell (r, c)
ProcessCell(ctx, r, c) == ProcessCellText(ctx, r, c, sanitize(Cell(Row(ctx.rows, r), c)))

\* for (let i = 0; i < timeCols.length; i++): the time columns i.. of row r
RECURSIVE ProcessCols(_, _, _, _)
ProcessCols(ctx, r, timeCols, i) ==
  IF i > Len(timeCols) THEN NoOutput
  ELSE Join(ProcessCell(ctx, r, timeCols[i]), ProcessCols(ctx, r, timeCols, i + 1))

HasDayToken(rawDay) == \E i \in 1..Len(DAYS) : Includes(rawDay, DAYS[i])

\* currentDay taken from every first cell that is not empty
RowDayAny(ctx, r, currentDay) ==
  LET rawDay == toUpperCase(sanitize(Cell(Row(ctx.rows, r), 0)))
  IN  IF Len(rawDay) > 0 THEN rawDay ELSE currentDay

\* currentDay after the first cell of row r was read
RowDay(ctx, r, currentDay) ==
  LET rawDay == toUpperCase(sanitize(Cell(Row(ctx.rows, r), 0)))
  IN  IF HasDayToken(rawDay) THEN rawDay ELSE currentDay

\* if (!currentDay) continue; otherwise the time columns of the row
ProcessRow(ctx, r, day) ==
  IF Len(day) = 0 THEN NoOutput
  ELSE ProcessCols([ ctx EXCEPT !.currentDay = day ], r, SortedCols(DOMAIN ctx.colToTime), 1)

\* for (let r = TIME_ROW_INDEX + 1; r < endRow; r++): the rows r.. with currentDay carried
RECURSIVE ProcessRows(_, _, _, _)
ProcessRows(ctx, r, endRow, currentDay) ==
  IF r >= endRow THEN NoOutput
  ELSE Join(ProcessRow(ctx, r, RowDay(ctx, r, currentDay)),
            ProcessRows(ctx, r + 1, endRow, RowDay(ctx, r, currentDay)))

\* newSlotId(): the k-th slot pushed takes the k-th value of the counter after id0
Numbered(out, id0) ==
  [ slots |-> [ k \in 1..Len(out.slots) |-> [ id |-> id0 + k ] @@ out.slots[k] ],
    debugRows |-> out.debugRows ]

\* the result of a call that returned early with an error
Failed(error) ==
  [ error |-> error, colToTime |-> << >>, md |-> NoMetadata, maps |-> NoMaps,
    slots |-> << >>, debugRows |-> << >> ]

\* 3. the grid: the rows below the header row, up to the metadata header
ParseGrid(sheet, id0, colToTime, md, maps) ==
  [ error |-> "", colToTime |-> colToTime, md |-> md, maps |-> maps ]
  @@ Numbered(ProcessRows([ rows |-> sheet.rows, merges |-> sheet.merges,
                            colToTime |-> colToTime, maps |-> maps, currentDay |-> << >> ],
                          TIME_ROW_INDEX + 1,
                          IF md.metadataStartRow # -1 THEN md.metadataStartRow
                          ELSE NumRows(sheet.rows),
                          << >>),
              id0)

\* 2. the metadata rows below the metadata header
ExtractMetadata(sheet, id0, colToTime, md) ==
  ParseGrid(sheet, id0, colToTime, md, ReadMetadataRows(sheet.rows, md, NumRows(sheet.rows) - 1))

\* after header detection: no time column is an error
AfterHeader(sheet, id0, colToTime) ==
  IF DOMAIN colToTime = {} THEN Failed("No time ranges found")
  ELSE ExtractMetadata(sheet, id0, colToTime,
                       ScanMetadataHeader(sheet.rows, NumRows(sheet.rows) - 1))

\* the result of processExcelData(rows, sheet) as a value: what it found and would set
ParseSheet(sheet, id0) ==
  IF NumRows(sheet.rows) <= TIME_ROW_INDEX THEN Failed("File too short")
  ELSE AfterHeader(sheet, id0, DetectHeader(Row(sheet.rows, TIME_ROW_INDEX)))

(***************************************************************************)
(* The importer as a state machine                                         *)
(***************************************************************************)
\* files chosen in one behaviour
MaxUploads == 2

\* review actions (field edit, row added, row deleted, discard) in one behaviour
MaxEdits == 2

\* clicks on a Save button in one behaviour
MaxCommits == 2

\* store calls that return an error in one behaviour
MaxFailures == 1

\* the semesters offered by the semester selector that the model uses
MaxSemester == 2

VARIABLES
  loading,          \* useState(false)
  reviewMode,       \* useState(false)
  semester,         \* useState(1)
  logs,             \* useState([]): the log lines, each [kind, n]
  parsedSlots,      \* useState([]): the slot list under review
  subjectMap,       \* useState({}): subject code -> name
  ltpsMap,          \* useState({}): subject code -> declared [L, T, P, S]
  profDiagnostics,  \* useState([])
  filters,          \* filterDay, filterType, searchTerm
  slotCounter,      \* the module-level _slotCounter
  readers,          \* the FileReader loads not yet delivered: their sheets
  commits,          \* the handleUploadToDB calls in progress
  store,            \* the tables of the external store
  lastParse,        \* history: what the processExcelData call of the last step saw and built
  view,             \* the student custom view: its state, the local storage, the published slots
  budget            \* bookkeeping for the bounds above

vars ==
  << loading, reviewMode, semester, logs, parsedSlots, subjectMap, ltpsMap, profDiagnostics,
     filters, slotCounter, readers, commits, store, lastParse, view, budget >>

\* the value of the "All Days" option of the day filter
ALL == << "A", "L", "L" >>

Log(kind, n) == [ kind |-> kind, n |-> n ]

NoParse ==
  [ ran |-> FALSE, sheet |-> [ rows |-> << >>, merges |-> << >> ], error |-> "",
    colToTime |-> << >>, slots |-> << >>, debugRows |-> << >>, md |-> NoMetadata,
    facultyMap |-> EmptyMap ]

EmptyStore ==
  [ subjects |-> {}, professors |-> {}, rooms |-> {}, student_groups |-> {},
    timetables |-> {}, timetable_slots |-> {}, semester_clusters |-> {},
    cluster_requirements |-> {}, professor_expertise |-> {}, nextId |-> 1 ]

\* the student custom view before it is opened: the useState defaults, an empty local
\* storage (no saved semester, no saved section, no saved subjects) and nothing fetched
Closed ==
  [ opened |-> FALSE, file |-> "part_002", published |-> {}, allSlots |-> {},
    availableSemesters |-> << >>, selectedSemester |-> 0,
    availableGroups |-> << >>, selectedGroup |-> "",
    availableSubjects |-> << >>, selectedSubjects |-> << >>,
    my_custom_semester |-> << >>, my_custom_group |-> "",
    my_custom_subjects |-> [ saved |-> FALSE, list |-> << >> ] ]

Init ==
  /\ loading = FALSE
  /\ reviewMode = FALSE
  /\ semester = 1
  /\ logs = << >>
  /\ parsedSlots = << >>
  /\ subjectMap = EmptyMap
  /\ ltpsMap = EmptyMap
  /\ profDiagnostics = << >>
  /\ filters = [ filterDay |-> ALL, filterType |-> "ALL", searchTerm |-> << >> ]
  /\ slotCounter = 0
  /\ readers = << >>
  /\ commits = << >>
  /\ store = EmptyStore
  /\ lastParse = NoParse
  /\ view = Closed
  /\ budget = [ uploads |-> 0, edits |-> 0, commits |-> 0, failures |-> 0 ]

\* a sequence without its i-th element
RemoveAt(seq, i) == SubSeq(seq, 1, i - 1) \o SubSeq(seq, i + 1, Len(seq))

\* handleFileUpload for a chosen file whose first sheet is `sheet`
\* (tableName, which only names the stored timetable, is not modelled)
HandleFileUpload(sheet) ==
  /\ budget.uploads < MaxUploads
  /\ loading' = TRUE
  /\ reviewMode' = FALSE
  /\ logs' = << Log("Reading file", 0) >>
  /\ parsedSlots' = << >>
  /\ profDiagnostics' = << >>
  /\ ltpsMap' = EmptyMap
  /\ readers' = Append(readers, sheet)
  /\ budget' = [ budget EXCEPT !.uploads = @ + 1 ]
  /\ lastParse' = NoParse
  /\ UNCHANGED << semester, subjectMap, filters, view, slotCounter, commits, store >>

\* the addLog calls of the header row: one line per cell that matches the pattern
RECURSIVE HeaderLogs(_, _)
HeaderLogs(headerRow, c) ==
  IF c >= Len(headerRow) THEN << >>
  ELSE (IF Match(TimeRangeRe, formatExcelTime(Cell(headerRow, c))).ok
        THEN << Log("Found time", c) >> ELSE << >>) \o HeaderLogs(headerRow, c + 1)

\* the addLog calls of the metadata scan: one line per row that holds both tokens
RECURSIVE MetadataLogs(_, _)
MetadataLogs(rows, r) ==
  IF r >= NumRows(rows) THEN << >>
  ELSE (IF IsMetadataHeader(Row(rows, r))
        THEN << Log("Found Metadata Header", r + 1) >> ELSE << >>) \o MetadataLogs(rows, r + 1)

\* Object.keys(map).length
Size(map) == Cardinality(DOMAIN map)

\* the log lines of one processExcelData call, p being its result
ParseLogs(sheet, p) ==
  << Log("Processing rows", NumRows(sheet.rows)) >>
  \o (IF p.error = "File too short" THEN << Log("Error: File too short", 0) >>
      ELSE << Log("Inspecting Row 2", 0) >> \o HeaderLogs(Row(sheet.rows, TIME_ROW_INDEX), 0)
           \o (IF p.error = "No time ranges found"
               THEN << Log("Error: No time ranges found", 0) >>
               ELSE MetadataLogs(sheet.rows, 0)
                    \o << IF Size(p.maps.subjectLtpsMap) > 0
                          THEN Log("L-T-P-S read", Size(p.maps.subjectLtpsMap))
                          ELSE Log("No L-T-P-S column found", 0) >>
                    \o << IF Len(p.slots) > 0 THEN Log("Parsed slots", Len(p.slots))
                          ELSE Log("Error: Parsed 0 slots", 0) >>))

\* a slot as the program keeps it (without the cell it came from)
ParsedSlot(s) ==
  [ id |-> s.id, day |-> s.day, timeStart |-> s.timeStart, timeEnd |-> s.timeEnd,
    subjectCode |-> s.subjectCode, type |-> s.type, section |-> s.section, room |-> s.room,
    facultyName |-> s.facultyName, rawString |-> s.rawString, isMinor |-> s.isMinor ]

\* reader.onload of the i-th pending load: processExcelData on its sheet, then the
\* finally block.  (XLSX.read is taken to succeed: the sheet is the input.)
ReaderOnload(i) ==
  \E sheet \in { readers[i] } : \E p \in { ParseSheet(sheet, slotCounter) } :
    /\ readers' = RemoveAt(readers, i)
    /\ logs' = logs \o ParseLogs(sheet, p)
    /\ loading' = FALSE
    /\ lastParse' = [ ran |-> TRUE, sheet |-> sheet, error |-> p.error,
                      colToTime |-> p.colToTime, slots |-> p.slots,
                      debugRows |-> p.debugRows, md |-> p.md,
                      facultyMap |-> p.maps.facultyMap ]
    /\ IF p.error # ""
       THEN UNCHANGED << reviewMode, parsedSlots, subjectMap, ltpsMap, profDiagnostics,
                         slotCounter >>
       ELSE /\ subjectMap' = p.maps.subjectNameMap
            /\ ltpsMap' = p.maps.subjectLtpsMap
            /\ parsedSlots' = [ k \in 1..Len(p.slots) |-> ParsedSlot(p.slots[k]) ]
            /\ profDiagnostics' = IF p.md.metadataStartRow # -1 THEN p.maps.diagnostics
                                  ELSE profDiagnostics
            /\ reviewMode' = IF Len(p.slots) > 0 THEN TRUE ELSE reviewMode
            /\ slotCounter' = slotCounter + Len(p.slots)
    /\ UNCHANGED << semester, filters, view, commits, store, budget >>

(***************************************************************************)
(* Input sheets                                                            *)
(***************************************************************************)
Sheet(rows, merges) == [ rows |-> rows, merges |-> merges ]

\* a merged rectangle of the sheet, from its top-left to its bottom-right cell
Span(r1, c1, r2, c2) == [ s |-> [ r |-> r1, c |-> c1 ], e |-> [ r |-> r2, c |-> c2 ] ]

\* two decimal digits
TwoDigits(n) == padStart2(NumToText(n))

\* a header cell that holds the time range h1:m1 .. h2:m2, written in one of four styles
RangeCell(h1, m1, h2, m2, style) ==
  CASE style = 1 -> TwoDigits(h1) \o << ":" >> \o TwoDigits(m1) \o << "-" >>
                    \o TwoDigits(h2) \o << ":" >> \o TwoDigits(m2)
    [] style = 2 -> NumToText(h1) \o << "." >> \o TwoDigits(m1) \o << " ", "t", "o", " " >>
                    \o NumToText(h2) \o << "." >> \o TwoDigits(m2)
    [] style = 3 -> NumToText(h1) \o << ":" >> \o TwoDigits(m1) \o << " ", "-", " " >>
                    \o NumToText(h2) \o << ":" >> \o TwoDigits(m2)
    [] OTHER     -> TwoDigits(h1) \o TwoDigits(m1) \o << "-" >> \o TwoDigits(h2) \o TwoDigits(m2)

\* the time ranges the header rows below are built from: << h1, m1, h2, m2, style >>
Ranges ==
  { << 8, 50, 9, 50, 1 >>, << 9, 50, 10, 50, 1 >>, << 11, 0, 12, 0, 1 >>,
    << 9, 0, 11, 0, 2 >>, << 2, 0, 4, 0, 3 >>,
    << 12, 30, 1, 30, 1 >>, << 8, 50, 9, 50, 4 >> }

RangeOf(x) == RangeCell(x[1], x[2], x[3], x[4], x[5])

DayCell == << "D", "a", "y" >>

HeaderRows ==
  { << DayCell, RangeOf(<< 8, 50, 9, 50, 1 >>), RangeOf(<< 9, 50, 10, 50, 1 >>),
       RangeOf(<< 11, 0, 12, 0, 1 >>) >>,
    << DayCell, RangeOf(<< 9, 0, 11, 0, 2 >>), << "R", "o", "o", "m" >>, RangeOf(<< 2, 0, 4, 0, 3 >>) >>,
    << << >>, RangeOf(<< 8, 50, 9, 50, 4 >>), << "L", "u", "n", "c", "h" >>, RangeOf(<< 12, 30, 1, 30, 1 >>) >>,
    << DayCell, RangeOf(<< 9, 0, 11, 0, 2 >>), RangeOf(<< 9, 50, 10, 50, 1 >>),
       RangeOf(<< 11, 0, 12, 0, 1 >>) >> }

\* a cell in the documented convention: SUBJECT (TYPE) (ROOM) Sec X
CanonicalCell(subject, letter, room, sec) ==
  subject \o << " ", "(", letter, ")", " ", "(" >> \o room \o << ")", " ", "S", "e", "c", " " >> \o sec

\* the components the canonical cells below are built from
CanonicalParts ==
  { << << "C", "S", "1", "0", "1" >>, "L", << "L", "T", "-", "1", "0", "1" >>, << "A" >> >>,
    << << "M", "A", "1", "0", "2" >>, "P", << "C", "C", "3", "-", "5", "1", "0", "6" >>, << "B" >> >>,
    << << "I", "T", "3", "0", "1" >>, "T", << "L", "T", " ", "2", "1", "0", "1" >>, << "C" >> >> }

CanonicalOf(x) == CanonicalCell(x[1], x[2], x[3], x[4])

\* cells that are exactly a break or lunch marker
MarkerCells == { << "L", "U", "N", "C", "H" >>, << "l", "u", "n", "c", "h" >>, << "L", "u", "n", "c", "h", "." >>, << "B", "R", "E", "A", "K" >>, << "B", "r", "e", "a", "k" >> }

CellTexts ==
  { CanonicalOf(x) : x \in CanonicalParts } \cup MarkerCells
  \cup { << "C", "S", "1", "0", "1", " ", "S", "e", "c", " ", "A", " ", "(", "L", ")", " ", "(", "L", "T", "-", "1", "0", "1", ")" >>, << "C", "S", "1", "0", "1", " ", "(", "P", ")" >>, << "M", "A", "1", "0", "2", " ", "(", "T", ")", " ", "G", "r", "o", "u", "p", " ", "2" >>,
         << "C", "S", "1", "0", "1", " ", "(", "L", ")", " ", "M", "A", "1", "0", "2", " ", "(", "P", ")" >>, << "C", "S", "1", "0", "1" >>, << "S", "e", "c", " ", "A" >>, << "a", "b" >>, << >>,
         << "M", "I", "N", "O", "R" >>, << "C", "S", "1", "0", "1", " ", "(", "L", ")", "\n", "L", "U", "N", "C", "H" >> }

DayLabels == { << "M", "O", "N" >>, << "T", "u", "e", "s", "d", "a", "y" >>, << >> }

\* the merged rectangles of a sheet: none, the probed cell across two or three
\* columns, or the last column down two rows
MergeLists ==
  { << >>, << Span(2, 1, 2, 2) >>, << Span(2, 1, 2, 3) >>, << Span(2, 3, 3, 3) >> }

TitleRow == << << "T", "i", "m", "e", " ", "T", "a", "b", "l", "e" >> >>

\* one sheet per header row, day label, probed cell and merge list; the probed cell
\* is at row 2, column 1, with a lunch marker and a practical class to its right
GridSheets ==
  { Sheet(<< TitleRow, h,
             << d, a, << "L", "U", "N", "C", "H" >>, << "M", "A", "1", "0", "2", " ", "(", "P", ")", " ", "(", "C", "C", "3", "-", "5", "1", "0", "6", ")" >> >>,
             << << >>, << "I", "T", "3", "0", "1", " ", "(", "T", ")" >>, << >>, << "B", "r", "e", "a", "k" >> >> >>, m) :
      h \in HeaderRows, d \in DayLabels, a \in CellTexts, m \in MergeLists }

\* a sheet with fewer than two rows, and one whose second row holds no time range
TooShortSheet == Sheet(<< TitleRow >>, << >>)

NoTimesSheet ==
  Sheet(<< TitleRow, << DayCell, << "R", "o", "o", "m" >> >>, << << "M", "O", "N" >>, << "C", "S", "1", "0", "1", " ", "(", "L", ")" >> >> >>, << >>)

\* a sheet whose metadata table is headed twice, the second time with the columns in
\* another order
TwoHeaderSheet ==
  Sheet(<< TitleRow,
           << DayCell, RangeOf(<< 8, 50, 9, 50, 1 >>) >>,
           << << "M", "O", "N" >>, << "C", "S", "1", "0", "1", " ", "(", "L", ")" >> >>,
           << << "C", "o", "u", "r", "s", "e", " ", "C", "o", "d", "e" >>, << "C", "o", "u", "r", "s", "e", " ", "N", "a", "m", "e" >>, << "F", "a", "c", "u", "l", "t", "i", "e", "s" >> >>,
           << << "C", "S", "1", "0", "1" >>, << "M", "A", "1", "0", "2", " ", "(", "T", ")" >>, << "D", "r", ".", " ", "A", " ", "R", "a", "o" >> >>,
           << << "F", "a", "c", "u", "l", "t", "i", "e", "s" >>, << "C", "o", "u", "r", "s", "e", " ", "C", "o", "d", "e" >>, << "C", "o", "u", "r", "s", "e", " ", "N", "a", "m", "e" >> >>,
           << << "P", "r", "o", "f", ".", " ", "B", " ", "S", "e", "n" >>, << "M", "A", "1", "0", "2" >>, << "M", "a", "t", "h", "e", "m", "a", "t", "i", "c", "s" >> >> >>, << >>)

\* the faculty texts of a metadata row: one name, two names, a name with a section list,
\* two names with a section each, a name with a section beside a name without, and none
FacultyTexts ==
  { << "D", "r", ".", " ", "A", " ", "R", "a", "o" >>,
    << "D", "r", ".", " ", "A", " ", "R", "a", "o", ",", " ", "P", "r", "o", "f", ".", " ", "B", " ", "S", "e", "n" >>,
    << "D", "r", ".", " ", "A", " ", "R", "a", "o", " ", "(", "A", ",", " ", "B", ")" >>,
    << "D", "r", ".", " ", "A", " ", "R", "a", "o", " ", "(", "S", "e", "c", " ", "A", ")", ",", " ", "P", "r", "o", "f", ".", " ", "B", " ", "S", "e", "n", " ", "(", "B", ")" >>,
    << "D", "r", ".", " ", "A", " ", "R", "a", "o", " ", "(", "A", ")", ",", " ", "P", "r", "o", "f", ".", " ", "B", " ", "S", "e", "n" >>,
    << "U", "n", "k", "n", "o", "w", "n" >>,
    << >> }

\* grid cells of a subject with and without a section
SectionCells ==
  { << "C", "S", "1", "0", "1", " ", "S", "e", "c", " ", "A", " ", "(", "L", ")" >>,
    << "C", "S", "1", "0", "1", " ", "S", "e", "c", " ", "B", " ", "(", "L", ")" >>,
    << "C", "S", "1", "0", "1", " ", "(", "L", ")" >>,
    << "M", "A", "1", "0", "2", " ", "S", "e", "c", " ", "A", " ", "(", "L", ")" >> }

\* one sheet per grid cell and faculty text: the cell on Monday, and a metadata table
\* with the one row of CS101
FacultySheets ==
  { Sheet(<< TitleRow,
             << DayCell, RangeOf(<< 8, 50, 9, 50, 1 >>) >>,
             << << "M", "O", "N" >>, a >>,
             << << "C", "o", "u", "r", "s", "e", " ", "C", "o", "d", "e" >>, << "C", "o", "u", "r", "s", "e", " ", "N", "a", "m", "e" >>, << "L", "-", "T", "-", "P", "-", "S" >>, << "F", "a", "c", "u", "l", "t", "i", "e", "s" >> >>,
             << << "C", "S", "1", "0", "1" >>, << "P", "r", "o", "g", "r", "a", "m", "m", "i", "n", "g" >>, << "3", "-", "1", "-", "2", "-", "0" >>, f >> >>, << >>) :
      a \in SectionCells, f \in FacultyTexts }

ParseFiles == GridSheets \cup FacultySheets \cup { TooShortSheet, NoTimesSheet, TwoHeaderSheet }

(***************************************************************************)
(* The parser on its own: a file has been chosen, its load is pending      *)
(***************************************************************************)
\* a file of the set has been chosen in the initial state and its load is pending; the
\* store is one of the given ones, and the behaviour has left.uploads further uploads,
\* left.commits commits and left.failures failing store calls
Pending(files, stores, left) ==
  /\ loading = TRUE
  /\ reviewMode = FALSE
  /\ semester = 1
  /\ logs = << Log("Reading file", 0) >>
  /\ parsedSlots = << >>
  /\ subjectMap = EmptyMap
  /\ ltpsMap = EmptyMap
  /\ profDiagnostics = << >>
  /\ filters = [ filterDay |-> ALL, filterType |-> "ALL", searchTerm |-> << >> ]
  /\ slotCounter = 0
  /\ readers \in { << f >> : f \in files }
  /\ commits = << >>
  /\ store \in stores
  /\ lastParse = NoParse
  /\ view = Closed
  /\ budget = [ uploads |-> MaxUploads - left.uploads, edits |-> 0,
                 commits |-> MaxCommits - left.commits,
                 failures |-> MaxFailures - left.failures ]

InitParse == Pending(ParseFiles, { EmptyStore }, [ uploads |-> 0, commits |-> 0, failures |-> 0 ])

Load == \E i \in 1..Len(readers) : ReaderOnload(i)

NextParse == Load

SpecParse == InitParse /\ [][NextParse]_vars

(***************************************************************************)
(* Properties of one parse                                                 *)
(***************************************************************************)
\* the last step was a processExcelData call that built a slot list
Parsed == lastParse.ran /\ lastParse.error = ""

\* the sanitized text of the sheet cell at row r, column c
CellAt(r, c) == sanitize(Cell(Row(lastParse.sheet.rows, r), c))

\* the rows below the header row
GridRows == (TIME_ROW_INDEX + 1)..(NumRows(lastParse.sheet.rows) - 1)

\* the columns of the time axis
TimeCols == DOMAIN lastParse.colToTime

\* row r is a weekday-labelled row or lies below one
InDayRow(r) == \E q \in (TIME_ROW_INDEX + 1)..r : HasDayToken(toUpperCase(CellAt(q, 0)))

\* the extracted slots and the diagnostic records that came from the cell (r, c)
SlotsFrom(r, c) ==
  { k \in 1..Len(lastParse.slots) :
      lastParse.slots[k].srcRow = r /\ lastParse.slots[k].srcCol = c }

RecordsFrom(r, c) ==
  { k \in 1..Len(lastParse.debugRows) :
      lastParse.debugRows[k].rowNum = r + 1 /\ lastParse.debugRows[k].srcCol = c }

TypeOfLetter(letter) ==
  CASE letter = "L" -> "Lecture" [] letter = "T" -> "Tutorial" [] letter = "P" -> "Practical"

\* the text before and after the first colon of a clock text
ColonAt(t) == Least({ i \in 1..Len(t) : t[i] = ":" })

HourPart(t) == SubSeq(t, 1, ColonAt(t) - 1)

MinutePart(t) == SubSeq(t, ColonAt(t) + 1, Len(t))

\* two hours later, minutes unchanged
PlusTwoHours(t) == NumToText(TextToNum(HourPart(t)) + 2) \o << ":" >> \o MinutePart(t)

\* minutes since midnight
MinutesOf(t) == TextToNum(HourPart(t)) * 60 + TextToNum(MinutePart(t))

\* the header cells that hold one time range
RangeCells ==
  { c \in 0..(Len(Row(lastParse.sheet.rows, TIME_ROW_INDEX)) - 1) :
      Cell(Row(lastParse.sheet.rows, TIME_ROW_INDEX), c) \in { RangeOf(x) : x \in Ranges } }

\* C1 (as claimed): a cell SUBJECT (TYPE) (ROOM) Sec X under a time column in a day row
\* yields exactly one slot, with subject SUBJECT, the type named by TYPE, the normalized
\* room, section "Sec X" and the column's times, and no diagnostic record of status Failed.
C1_CanonicalCellOneSlot ==
  Parsed =>
    \A r \in GridRows, c \in TimeCols, x \in CanonicalParts :
      (InDayRow(r) /\ CellAt(r, c) = CanonicalOf(x)) =>
        /\ Cardinality(SlotsFrom(r, c)) = 1
        /\ \A k \in SlotsFrom(r, c) :
             /\ lastParse.slots[k].subjectCode = x[1]
             /\ lastParse.slots[k].type = TypeOfLetter(x[2])
             /\ lastParse.slots[k].room = normalizeRoom(x[3])
             /\ lastParse.slots[k].section = SecPrefix \o x[4]
             /\ lastParse.slots[k].timeStart = lastParse.colToTime[c].start
             /\ lastParse.slots[k].timeEnd = lastParse.colToTime[c].end
        /\ \A k \in RecordsFrom(r, c) : lastParse.debugRows[k].status # "Failed"

Lunch == << "L", "U", "N", "C", "H" >>

C8_MergedEndIsRightEdgeEnd ==
  Parsed =>
    \A i \in 1..Len(lastParse.sheet.merges) :
      \A k \in SlotsFrom(lastParse.sheet.merges[i].s.r, lastParse.sheet.merges[i].s.c) :
        /\ lastParse.sheet.merges[i].e.c \in TimeCols
        /\ lastParse.slots[k].timeEnd = lastParse.colToTime[lastParse.sheet.merges[i].e.c].end

\* C8 (amended): when a merge span has the cell (row, column) as its top-left corner, every
\* slot of that cell ends at the end time of the column at the span's right edge if that
\* column is a time column, and at the end time of the cell's own column otherwise,
\* whatever the slot's type.
C8_MergedEndOrOwnEnd ==
  Parsed =>
    \A i \in 1..Len(lastParse.sheet.merges) :
      \A k \in SlotsFrom(lastParse.sheet.merges[i].s.r, lastParse.sheet.merges[i].s.c) :
        lastParse.slots[k].timeEnd =
          IF lastParse.sheet.merges[i].e.c \in TimeCols
          THEN lastParse.colToTime[lastParse.sheet.merges[i].e.c].end
          ELSE lastParse.colToTime[lastParse.sheet.merges[i].s.c].end

\* a slot of a merged cell whose span ends in another time column with another end time
C8_Witness ==
  /\ Parsed
  /\ \E i \in 1..Len(lastParse.sheet.merges) :
       /\ lastParse.sheet.merges[i].e.c \in TimeCols
       /\ lastParse.sheet.merges[i].s.c \in TimeCols
       /\ lastParse.colToTime[lastParse.sheet.merges[i].e.c].end
            # lastParse.colToTime[lastParse.sheet.merges[i].s.c].end
       /\ SlotsFrom(lastParse.sheet.merges[i].s.r, lastParse.sheet.merges[i].s.c) # {}

\* C9 (as claimed): when no merge span starts at the cell, a Practical slot ends two hours
\* after its start, minutes unchanged, and a slot of any other type ends at the end time
\* of its own time column.
C9_UnmergedEnd ==
  Parsed =>
    \A k \in 1..Len(lastParse.slots) :
      (\A i \in 1..Len(lastParse.sheet.merges) :
         ~(/\ lastParse.sheet.merges[i].s.r = lastParse.slots[k].srcRow
           /\ lastParse.sheet.merges[i].s.c = lastParse.slots[k].srcCol)) =>
        IF lastParse.slots[k].type = "Practical"
        THEN lastParse.slots[k].timeEnd = PlusTwoHours(lastParse.slots[k].timeStart)
        ELSE lastParse.slots[k].timeEnd = lastParse.colToTime[lastParse.slots[k].srcCol].end

ReviewVisible == reviewMode /\ Len(parsedSlots) > 0 /\ ~loading

\* the rows of the review table: the positions of filteredSlots in parsedSlots
filteredSlots ==
  { k \in 1..Len(parsedSlots) :
      /\ (filters.filterDay # ALL => parsedSlots[k].day = filters.filterDay)
      /\ (filters.filterType # "ALL" => parsedSlots[k].type = filters.filterType)
      /\ (Len(filters.searchTerm) > 0 =>
            \/ Includes(toLowerCase(parsedSlots[k].subjectCode), toLowerCase(filters.searchTerm))
            \/ Includes(toLowerCase(parsedSlots[k].facultyName), toLowerCase(filters.searchTerm))
            \/ Includes(toLowerCase(parsedSlots[k].section), toLowerCase(filters.searchTerm))
            \/ Includes(toLowerCase(parsedSlots[k].room), toLowerCase(filters.searchTerm))) }

\* a review action is taken: it is visible, and the behaviour has edits left
ReviewAction ==
  /\ ReviewVisible
  /\ budget.edits < MaxEdits
  /\ budget' = [ budget EXCEPT !.edits = @ + 1 ]
  /\ lastParse' = NoParse

\* handleSlotChange(id, field, value) from a row of the review table
HandleSlotChange(id, field, value) ==
  /\ ReviewAction
  /\ \E k \in filteredSlots : parsedSlots[k].id = id
  /\ parsedSlots' = [ k \in 1..Len(parsedSlots) |->
                        IF parsedSlots[k].id = id
                        THEN [ parsedSlots[k] EXCEPT ![field] = value ]
                        ELSE parsedSlots[k] ]
  /\ UNCHANGED << loading, reviewMode, semester, logs, subjectMap, ltpsMap, profDiagnostics,
                  filters, view, slotCounter, readers, commits, store >>

HandleSlotDeleteStored(id) ==
  /\ ReviewAction
  /\ \E k \in filteredSlots : parsedSlots[k].id = id
  /\ parsedSlots' = SelectSeq(parsedSlots, LAMBDA s : s.id # id)
  /\ store' = [ store EXCEPT !.timetable_slots = {} ]
  /\ UNCHANGED << loading, reviewMode, semester, logs, subjectMap, ltpsMap, profDiagnostics,
                  filters, view, slotCounter, readers, commits >>

\* handleSlotDelete(id) from a row of the review table
HandleSlotDelete(id) ==
  /\ ReviewAction
  /\ \E k \in filteredSlots : parsedSlots[k].id = id
  /\ parsedSlots' = SelectSeq(parsedSlots, LAMBDA s : s.id # id)
  /\ UNCHANGED << loading, reviewMode, semester, logs, subjectMap, ltpsMap, profDiagnostics,
                  filters, view, slotCounter, readers, commits, store >>

\* handleAddRow: a blank row with a fresh id (it has no isMinor field)
HandleAddRow ==
  /\ ReviewAction
  /\ parsedSlots' =
       Append(parsedSlots,
         [ id |-> slotCounter + 1, day |-> DAYS[1], timeStart |-> << "9", ":", "0", "0" >>,
           timeEnd |-> << "1", "0", ":", "0", "0" >>, subjectCode |-> << >>,
           type |-> "Lecture", section |-> All, room |-> TBA, facultyName |-> Unknown,
           rawString |-> << >> ])
  /\ slotCounter' = slotCounter + 1
  /\ UNCHANGED << loading, reviewMode, semester, logs, subjectMap, ltpsMap, profDiagnostics,
                  filters, view, readers, commits, store >>

\* the Discard button
Discard ==
  /\ ReviewAction
  /\ parsedSlots' = << >>
  /\ reviewMode' = FALSE
  /\ UNCHANGED << loading, semester, logs, subjectMap, ltpsMap, profDiagnostics, filters, view,
                  slotCounter, readers, commits, store >>

\* the search box and the day and type filters
SetFilter(name, value) ==
  /\ ReviewAction
  /\ filters[name] # value
  /\ filters' = [ filters EXCEPT ![name] = value ]
  /\ UNCHANGED << loading, reviewMode, semester, logs, parsedSlots, subjectMap, ltpsMap,
                  profDiagnostics, slotCounter, readers, commits, store, view >>

\* the semester selector
SetSemester(n) ==
  /\ n # semester
  /\ semester' = n
  /\ lastParse' = NoParse
  /\ UNCHANGED << loading, reviewMode, logs, parsedSlots, subjectMap, ltpsMap, profDiagnostics,
                  filters, view, slotCounter, readers, commits, store, budget >>

\* the subject codes of the cross-check table (the empty code is left out)
subjects == { parsedSlots[k].subjectCode : k \in 1..Len(parsedSlots) } \ { << >> }

\* the number of distinct `${day}|${section}` keys among the slots of a type
uniqCount(slots, type) ==
  Cardinality({ slots[k].day \o << "|" >> \o slots[k].section :
                  k \in { j \in 1..Len(slots) : slots[j].type = type } })

\* `expected` of a subject without declared hours
undefined == -1

\* variant: no third state
checkCellTwoStates(got, expected) == IF got = expected THEN "ok" ELSE "bad"

checkCell(got, expected) ==
  IF expected = undefined THEN "noref" ELSE IF got = expected THEN "ok" ELSE "bad"

\* one element of tableRows
TableRow(code) ==
  LET slots == SelectSeq(parsedSlots, LAMBDA s : s.subjectCode = code)
      parsedL == uniqCount(slots, "Lecture")
      parsedT == uniqCount(slots, "Tutorial")
      parsedP == uniqCount(slots, "Practical")
      declared == code \in DOMAIN ltpsMap
  IN  [ code |-> code, parsedL |-> parsedL, parsedT |-> parsedT, parsedP |-> parsedP,
        declared |-> declared,
        L |-> IF declared THEN ltpsMap[code].L ELSE undefined,
        T |-> IF declared THEN ltpsMap[code].T ELSE undefined,
        P |-> IF declared THEN ltpsMap[code].P ELSE undefined,
        allOk |-> \/ ~declared
                  \/ /\ parsedL = ltpsMap[code].L
                     /\ parsedT = ltpsMap[code].T
                     /\ parsedP = ltpsMap[code].P ]

anyBad == \E code \in subjects : ~TableRow(code).allOk

\* the class of a table row: red when the row is not allOk
RowClass(code) == IF TableRow(code).allOk THEN "plain" ELSE "bad"

(***************************************************************************)
(* Review on its own: a file is parsed and edited; nothing is saved        *)
(***************************************************************************)
\* a sheet with declared hours 3-1-2-0 for CS101, taught as three lectures, one tutorial
\* and one practical, and with a subject (MA102) that has no metadata row
LtpSheet ==
  Sheet(<< TitleRow,
           << DayCell, RangeOf(<< 8, 50, 9, 50, 1 >>), RangeOf(<< 9, 50, 10, 50, 1 >>) >>,
           << << "M", "O", "N" >>, << "C", "S", "1", "0", "1", " ", "(", "L", ")" >>, << "M", "A", "1", "0", "2", " ", "(", "L", ")" >> >>,
           << << "T", "U", "E" >>, << "C", "S", "1", "0", "1", " ", "(", "L", ")" >>, << >> >>,
           << << "W", "E", "D" >>, << "C", "S", "1", "0", "1", " ", "(", "L", ")" >>, << >> >>,
           << << "T", "H", "U" >>, << "C", "S", "1", "0", "1", " ", "(", "T", ")" >>, << >> >>,
           << << "F", "R", "I" >>, << "C", "S", "1", "0", "1", " ", "(", "P", ")" >>, << >> >>,
           << << "C", "o", "u", "r", "s", "e", " ", "C", "o", "d", "e" >>, << "C", "o", "u", "r", "s", "e", " ", "N", "a", "m", "e" >>, << "L", "-", "T", "-", "P", "-", "S" >>, << "F", "a", "c", "u", "l", "t", "i", "e", "s" >> >>,
           << << "C", "S", "1", "0", "1" >>, << "P", "r", "o", "g", "r", "a", "m", "m", "i", "n", "g" >>, << "3", "-", "1", "-", "2", "-", "0" >>, << "D", "r", ".", " ", "A", " ", "R", "a", "o" >> >> >>, << >>)

\* a sheet without metadata whose first day label holds two weekday tokens
TwoDaySheet ==
  Sheet(<< TitleRow,
           << DayCell, RangeOf(<< 8, 50, 9, 50, 1 >>) >>,
           << << "M", "O", "N", "|", "T", "U", "E" >>, << "C", "S", "1", "0", "1", " ", "(", "L", ")" >> >>,
           << << "M", "O", "N" >>, << "C", "S", "1", "0", "1", " ", "(", "L", ")" >> >> >>, << >>)

ReviewFiles == { LtpSheet, TwoDaySheet }

\* the values typed into the text fields of a row, and the fields of a row
EditTexts == { << >>, << "T", "U", "E", "|", "A", "l", "l" >>, << "c", "s", "1", "0", "1" >> }

\* the fields of a row that the cross-check reads
ReviewFields == { "day", "subjectCode", "type", "section" }

EditValues(field) ==
  CASE field = "day" -> { DAYS[i] : i \in 1..Len(DAYS) }
    [] field = "type" -> { TYPES[i] : i \in 1..Len(TYPES) }
    [] OTHER -> EditTexts

\* the values the filters are set to
FilterValues(name) ==
  CASE name = "filterDay" -> { ALL, DAYS[1] }
    [] name = "filterType" -> { "ALL", "Practical" }
    [] OTHER -> { << >>, << "c", "s" >> }

Edit ==
  \E k \in 1..Len(parsedSlots) : \E field \in ReviewFields : \E value \in EditValues(field) :
    HandleSlotChange(parsedSlots[k].id, field, value)

Delete == \E k \in 1..Len(parsedSlots) : HandleSlotDelete(parsedSlots[k].id)

Filter ==
  \E name \in { "filterDay", "filterType", "searchTerm" } : \E value \in FilterValues(name) :
    SetFilter(name, value)

InitReview == Pending(ReviewFiles, { EmptyStore }, [ uploads |-> 0, commits |-> 0, failures |-> 0 ])

NextReview ==
  \/ Load
  \/ Edit
  \/ Delete
  \/ HandleAddRow
  \/ Discard
  \/ Filter

SpecReview == InitReview /\ [][NextReview]_vars

\* the number of distinct (day, section) pairs among the slots of a subject and a type
PairCount(code, type) ==
  Cardinality({ << parsedSlots[k].day, parsedSlots[k].section >> :
                  k \in { j \in 1..Len(parsedSlots) :
                            parsedSlots[j].subjectCode = code /\ parsedSlots[j].type = type } })

Declared3120(code) ==
  code \in DOMAIN ltpsMap /\ ltpsMap[code] = [ L |-> 3, T |-> 1, P |-> 2, S |-> 0 ]

\* C3 (as claimed): a subject declared 3-1-2-0 with 3 distinct (day, section) pairs of type
\* Lecture, 1 of type Tutorial and 1 of type Practical is reported consistent, and with
\* exactly one of the three counts different it is reported inconsistent.
C3_Declared3120 ==
  ReviewVisible =>
    \A code \in subjects :
      Declared3120(code) =>
        /\ (/\ PairCount(code, "Lecture") = 3
            /\ PairCount(code, "Tutorial") = 1
            /\ PairCount(code, "Practical") = 1) => TableRow(code).allOk
        /\ Cardinality({ t \in { << "Lecture", 3 >>, << "Tutorial", 1 >>, << "Practical", 1 >> } :
                           PairCount(code, t[1]) # t[2] }) = 1 => ~TableRow(code).allOk

\* C4 (as claimed): for every subject of the slot list and every type the parsed count is
\* the number of distinct (day, section) pairs among the subject's slots of that type, and
\* a subject with declared hours is consistent exactly when the three counts equal the
\* declared lecture, tutorial and practical hours.
C4_CountsDistinctPairs ==
  ReviewVisible =>
    \A code \in subjects :
      /\ TableRow(code).parsedL = PairCount(code, "Lecture")
      /\ TableRow(code).parsedT = PairCount(code, "Tutorial")
      /\ TableRow(code).parsedP = PairCount(code, "Practical")
      /\ code \in DOMAIN ltpsMap =>
           (TableRow(code).allOk <=>
              /\ PairCount(code, "Lecture") = ltpsMap[code].L
              /\ PairCount(code, "Tutorial") = ltpsMap[code].T
              /\ PairCount(code, "Practical") = ltpsMap[code].P)

\* C5 (as claimed): a subject of the slot list without declared hours is in a third state:
\* its count cells show no reference and its row is neither flagged consistent nor shown
\* as inconsistent.
C5_NoReferenceRow ==
  ReviewVisible =>
    \A code \in subjects :
      code \notin DOMAIN ltpsMap =>
        /\ checkCell(TableRow(code).parsedL, TableRow(code).L) = "noref"
        /\ checkCell(TableRow(code).parsedT, TableRow(code).T) = "noref"
        /\ checkCell(TableRow(code).parsedP, TableRow(code).P) = "noref"
        /\ ~TableRow(code).allOk
        /\ RowClass(code) # "bad"

\* C5 (amended): a subject of the slot list without declared hours shows no reference in
\* each of its three count cells (neither ok nor bad), while its row is flagged allOk: the
\* row is not shown as inconsistent and does not raise the mismatch banner.
C5_NoReferenceCells ==
  ReviewVisible =>
    \A code \in subjects :
      code \notin DOMAIN ltpsMap =>
        /\ checkCell(TableRow(code).parsedL, TableRow(code).L) = "noref"
        /\ checkCell(TableRow(code).parsedT, TableRow(code).T) = "noref"
        /\ checkCell(TableRow(code).parsedP, TableRow(code).P) = "noref"
        /\ TableRow(code).allOk
        /\ RowClass(code) = "plain"
        /\ (anyBad => \E other \in subjects : other \in DOMAIN ltpsMap /\ ~TableRow(other).allOk)

\* a reviewed list with a subject that has declared hours and one that has none
C5_Witness ==
  /\ ReviewVisible
  /\ \E code \in subjects : code \notin DOMAIN ltpsMap /\ PairCount(code, "Lecture") > 0
  /\ \E code \in subjects : code \in DOMAIN ltpsMap

(***************************************************************************)
(* Commit: handleUploadToDB and the calls it awaits                        *)
(***************************************************************************)
SaveVisibleWhenConsistent == Len(parsedSlots) > 0 /\ ~loading /\ ~anyBad

\* either Save button is rendered (the user is taken to be signed in)
SaveVisible == Len(parsedSlots) > 0 /\ ~loading

\* [...new Set(xs)]: the distinct elements in the order of their first occurrence
RECURSIVE Unique(_)
Unique(xs) ==
  IF xs = << >> THEN << >>
  ELSE LET init == Unique(SubSeq(xs, 1, Len(xs) - 1))
       IN  IF InSeq(xs[Len(xs)], init) THEN init ELSE Append(init, xs[Len(xs)])

uniqueSubjects(c) == Unique([ k \in 1..Len(c.parsedSlots) |-> c.parsedSlots[k].subjectCode ])

uniqueProfs(c) == Unique([ k \in 1..Len(c.parsedSlots) |-> c.parsedSlots[k].facultyName ])

uniqueRooms(c) == Unique([ k \in 1..Len(c.parsedSlots) |-> c.parsedSlots[k].room ])

uniqueGroups(c) == Unique([ k \in 1..Len(c.parsedSlots) |-> c.parsedSlots[k].section ])

\* the rows of the subjects upsert (credits and subject_type are left out; a subject
\* without declared hours has null hours)
subjectRows(c) ==
  LET u == uniqueSubjects(c)
      declared(code) == code \in DOMAIN c.ltpsMap
  IN  [ i \in 1..Len(u) |->
          [ code |-> u[i],
            name |-> IF Get(c.subjectMap, u[i]) # << >> THEN Get(c.subjectMap, u[i]) ELSE u[i],
            lectures |-> IF declared(u[i]) THEN c.ltpsMap[u[i]].L ELSE undefined,
            tutorials |-> IF declared(u[i]) THEN c.ltpsMap[u[i]].T ELSE undefined,
            practicals |-> IF declared(u[i]) THEN c.ltpsMap[u[i]].P ELSE undefined ] ]

\* /^(Prof\.|Dr\.|Mr\.|Mrs\.|Ms\.)\s*/i
HonorificRe ==
  << << Bol, LitI("P"), LitI("r"), LitI("o"), LitI("f"), Lit("."), Star(WS) >>,
     << Bol, LitI("D"), LitI("r"), Lit("."), Star(WS) >>,
     << Bol, LitI("M"), LitI("r"), Lit("."), Star(WS) >>,
     << Bol, LitI("M"), LitI("r"), LitI("s"), Lit("."), Star(WS) >>,
     << Bol, LitI("M"), LitI("s"), Lit("."), Star(WS) >> >>

\* the derived email of an instructor name
emailOf(n) ==
  LET clean == Keep(ReplaceFirst(HonorificRe, n, << >>), Upper \cup Lower \cup WS)
      emailPrefix == toLowerCase(ReplaceAll(<< << Plus(WS) >> >>, Trim(clean), << "." >>))
  IN  emailPrefix \o << "@", "i", "i", "i", "t", "a", ".", "a", "c", ".", "i", "n" >>

\* the rows of the professors upsert: the names of the slots and 'Unknown'
professorRows(c) ==
  LET distinctNames == Unique(uniqueProfs(c) \o << Unknown >>)
  IN  [ i \in 1..Len(distinctNames) |->
          [ name |-> distinctNames[i], email |-> emailOf(distinctNames[i]) ] ]

\* roomTypesMap[n]: the types of the slots in room n (slots with an empty room are skipped)
roomTypes(c, n) ==
  { c.parsedSlots[k].type :
      k \in { j \in 1..Len(c.parsedSlots) :
                c.parsedSlots[j].room # << >> /\ c.parsedSlots[j].room = n } }

\* the rows of the rooms upsert (capacity is left out)
roomRows(c) ==
  LET u == uniqueRooms(c)
  IN  [ i \in 1..Len(u) |->
          [ name |-> u[i],
            room_type |-> IF roomTypes(c, u[i]) = { "Practical" } THEN "Lab" ELSE "Lecture" ] ]

\* the rows of the student_groups upsert (program, student_count, group_type are left out)
groupRows(c) ==
  LET u == uniqueGroups(c)
  IN  [ i \in 1..Len(u) |-> [ name |-> u[i], semester |-> c.safeSemester ] ]

\* the four dependency upserts, in the order of the code
Dependencies ==
  [ upsertSubjects |-> [ table |-> "subjects", next |-> "upsertProfs" ],
    upsertProfs |-> [ table |-> "professors", next |-> "upsertRooms" ],
    upsertRooms |-> [ table |-> "rooms", next |-> "upsertGroups" ],
    upsertGroups |-> [ table |-> "student_groups", next |-> "selSubjects" ] ]

\* the rows a dependency upsert sends
DependencyRows(c, table) ==
  CASE table = "subjects" -> subjectRows(c)
    [] table = "professors" -> professorRows(c)
    [] table = "rooms" -> roomRows(c)
    [] table = "student_groups" -> groupRows(c)

\* the onConflict columns of a row
ConflictKey(table, row) ==
  CASE table = "subjects" -> << row.code >>
    [] table = "professors" -> << row.email >>
    [] table = "rooms" -> << row.name >>
    [] table = "student_groups" -> << row.name, row.semester >>

\* the rows of the batch that conflict with no row of the table
FreshRows(table, rows, batch) ==
  { i \in 1..Len(batch) : \A r \in rows : ConflictKey(table, r) # ConflictKey(table, batch[i]) }

\* upsert(batch, { onConflict }): a row of the table with the key of a batch row takes
\* that row's values, the other batch rows are inserted with ids from nextId on
Upsert(table, rows, nextId, batch) ==
  LET fresh == FreshRows(table, rows, batch)
      hit(r) == { i \in 1..Len(batch) : ConflictKey(table, batch[i]) = ConflictKey(table, r) }
  IN  { IF hit(r) = {} THEN r ELSE [ id |-> r.id ] @@ batch[Least(hit(r))] : r \in rows }
      \cup { [ id |-> nextId + Cardinality({ j \in fresh : j < i }) ] @@ batch[i] : i \in fresh }

\* two rows of one batch with the same key: the store rejects the whole upsert
\* (a row cannot be affected a second time by one command)
SelfConflict(table, batch) ==
  \E i \in 1..Len(batch) : \E j \in 1..Len(batch) :
    i < j /\ ConflictKey(table, batch[i]) = ConflictKey(table, batch[j])

\* the result of a select that failed ({ data: null }) and of one that returned rows
NoData == [ data |-> FALSE, rows |-> {} ]

Data(rows) == [ data |-> TRUE, rows |-> rows ]

\* list.find returns the first match in the order of the list, and a select without an
\* order returns the rows in any order: the lists a select can return, each given by the
\* rows that find can reach (one row for every lower-cased key)
FirstMatches(rows, key) ==
  { S \in SUBSET rows :
      \A r \in rows :
        Cardinality({ q \in S : toLowerCase(q[key]) = toLowerCase(r[key]) }) = 1 }

\* findId(list || [], key, val)
findId(list, key, val) ==
  LET found == { r \in list.rows : toLowerCase(r[key]) = toLowerCase(val) }
  IN  IF found = {} THEN undefined ELSE (CHOOSE r \in found : TRUE).id

\* ['MON', ...].findIndex(d => slot.day.includes(d)) + 1
dayOfWeek(day) ==
  LET hit == { k \in 1..Len(DAYS) : Includes(day, DAYS[k]) }
  IN  IF hit = {} THEN 0 ELSE Least(hit)

\* one element of parsedSlots.map(...) before filter(Boolean): the row to insert, or null
MapSlot(c, ttId, slot) ==
  LET subId == findId(c.dbSubjects, "code", slot.subjectCode)
      found == findId(c.dbProfs, "name", slot.facultyName)
      unknownProfId == findId(c.dbProfs, "name", Unknown)
      roomId == findId(c.dbRooms, "name", slot.room)
      groupId == findId(c.dbGroups, "name", slot.section)
  IN  IF subId = undefined \/ groupId = undefined
      THEN [ dropped |-> TRUE, row |-> << >> ]
      ELSE [ dropped |-> FALSE,
             row |-> [ timetable_id |-> ttId, subject_id |-> subId,
                       professor_id |-> IF found # undefined THEN found ELSE unknownProfId,
                       room_id |-> roomId, student_group_id |-> groupId,
                       day_of_week |-> dayOfWeek(slot.day), start_time |-> slot.timeStart,
                       end_time |-> slot.timeEnd, slot_type |-> slot.type ] ]

\* slotsToInsert: the rows of the mapped slots that were not dropped
slotsToInsert(mapped) ==
  LET kept == SelectSeq(mapped, LAMBDA m : ~m.dropped)
  IN  [ k \in 1..Len(kept) |-> kept[k].row ]

\* uniqueSubjects.map(code => findId(dbSubjects, 'code', code)).filter(Boolean)
subjectIdsOf(c) ==
  SelectSeq([ i \in 1..Len(uniqueSubjects(c)) |->
                findId(c.dbSubjects, "code", uniqueSubjects(c)[i]) ],
            LAMBDA id : id # undefined)

\* expertiseRows: the distinct (professor_id, subject_id) pairs of the slots whose
\* instructor and subject are both found, in the order of the slots
expertiseRows(c) ==
  LET pair(slot) == [ professor_id |-> findId(c.dbProfs, "name", slot.facultyName),
                      subject_id |-> findId(c.dbSubjects, "code", slot.subjectCode) ]
  IN  Unique(SelectSeq([ k \in 1..Len(c.parsedSlots) |-> pair(c.parsedSlots[k]) ],
                       LAMBDA p : p.professor_id # undefined /\ p.subject_id # undefined))

\* insert(batch): the rows with ids from nextId on
Inserted(nextId, batch) == { [ id |-> nextId + i - 1 ] @@ batch[i] : i \in 1..Len(batch) }

\* the schedule records of a semester: the slots of its timetables, without their ids
ScheduleRecords(sem) ==
  { [ day_of_week |-> s.day_of_week, start_time |-> s.start_time, end_time |-> s.end_time,
      slot_type |-> s.slot_type, subject_id |-> s.subject_id,
      professor_id |-> s.professor_id, room_id |-> s.room_id,
      student_group_id |-> s.student_group_id ] :
      s \in { q \in store.timetable_slots :
                \E t \in store.timetables : t.id = q.timetable_id /\ t.semester = sem } }

\* handleUploadToDB up to its first await: the closure keeps the slot list, the maps and
\* the semester of the render it was created in.  (The slot list is not empty, so none of
\* the four unique lists is, and each of the four upserts is sent.)  Four fields are
\* history: threw (the catch block ran), failedAt (the call whose error was thrown),
\* overlapped (another commit was in progress at some time of this one) and before (the
\* semester's schedule records at the click).
HandleUploadToDB ==
  LET running == { i \in 1..Len(commits) : commits[i].pc # "done" }
      c == [ pc |-> "upsertSubjects", parsedSlots |-> parsedSlots, subjectMap |-> subjectMap,
             ltpsMap |-> ltpsMap, safeSemester |-> semester, dbSubjects |-> NoData,
             dbProfs |-> NoData, dbRooms |-> NoData, dbGroups |-> NoData, ids |-> {},
             ttId |-> undefined, mapped |-> << >>, clusterId |-> undefined,
             threw |-> FALSE, failedAt |-> "none", overlapped |-> running # {},
             before |-> ScheduleRecords(semester) ]
  IN  /\ SaveVisible
      /\ budget.commits < MaxCommits
      /\ loading' = TRUE
      /\ commits' = Append([ i \in 1..Len(commits) |->
                               IF i \in running THEN [ commits[i] EXCEPT !.overlapped = TRUE ]
                               ELSE commits[i] ], c)
      /\ logs' = logs \o << Log("Preparing Database", 0),
                           Log("Found subjects", Len(uniqueSubjects(c))) >>
      /\ budget' = [ budget EXCEPT !.commits = @ + 1 ]
      /\ lastParse' = NoParse
      /\ UNCHANGED << reviewMode, semester, parsedSlots, subjectMap, ltpsMap, profDiagnostics,
                      filters, view, slotCounter, readers, store >>

\* commit i stands at one of the awaited calls pcs, and the call settles
AtCall(i, pcs) ==
  /\ commits[i].pc \in pcs
  /\ lastParse' = NoParse
  /\ UNCHANGED << reviewMode, semester, parsedSlots, subjectMap, ltpsMap, profDiagnostics,
                  filters, view, slotCounter, readers >>

\* the call returns an error (or no data): the behaviour has failures left
Fails ==
  /\ budget.failures < MaxFailures
  /\ budget' = [ budget EXCEPT !.failures = @ + 1 ]

Succeeds == UNCHANGED budget

\* the commit goes on to the call pc with the given fields set and lines logged; after the
\* last call the finally block clears loading
Resume(i, pc, fields, lines) ==
  /\ commits' = [ commits EXCEPT ![i] = [ pc |-> pc ] @@ fields @@ @ ]
  /\ logs' = logs \o lines
  /\ loading' = IF pc = "done" THEN FALSE ELSE loading

\* throw: the catch block logs the failure and the finally block clears loading
Throw(i) ==
  Resume(i, "done", "threw" :> TRUE @@ "failedAt" :> commits[i].pc, << Log("Failed", 0) >>)

\* the upserts with their errors logged and not thrown
UpsertDependencyGoesOn(i) ==
  LET c == commits[i]
      d == Dependencies[c.pc]
      batch == DependencyRows(c, d.table)
      rejected == SelfConflict(d.table, batch)
  IN  /\ AtCall(i, DOMAIN Dependencies)
      /\ \/ /\ ~rejected
            /\ Succeeds
            /\ store' = [ store EXCEPT
                 ![d.table] = Upsert(d.table, @, store.nextId, batch),
                 !.nextId = @ + Cardinality(FreshRows(d.table, store[d.table], batch)) ]
            /\ Resume(i, d.next, EmptyMap, << >>)
         \/ /\ (rejected /\ Succeeds) \/ Fails
            /\ UNCHANGED store
            /\ Resume(i, d.next, "failedAt" :> c.pc, << Log("Failed", 0) >>)

\* one of the four dependency upserts settles
UpsertDependency(i) ==
  LET c == commits[i]
      d == Dependencies[c.pc]
      batch == DependencyRows(c, d.table)
      rejected == SelfConflict(d.table, batch)
  IN  /\ AtCall(i, DOMAIN Dependencies)
      /\ \/ /\ ~rejected
            /\ Succeeds
            /\ store' = [ store EXCEPT
                 ![d.table] = Upsert(d.table, @, store.nextId, batch),
                 !.nextId = @ + Cardinality(FreshRows(d.table, store[d.table], batch)) ]
            /\ Resume(i, d.next, EmptyMap,
                      IF d.next = "selSubjects" THEN << Log("All dependencies synced", 0) >>
                      ELSE << >>)
         \/ /\ (rejected /\ Succeeds) \/ Fails
            /\ UNCHANGED store
            /\ Throw(i)

\* the four selects that follow the upserts, in the order of the code
Lookups ==
  [ selSubjects |-> [ table |-> "subjects", key |-> "code", into |-> "dbSubjects",
                      next |-> "selProfs" ],
    selProfs |-> [ table |-> "professors", key |-> "name", into |-> "dbProfs",
                   next |-> "selRooms" ],
    selRooms |-> [ table |-> "rooms", key |-> "name", into |-> "dbRooms",
                   next |-> "selGroups" ],
    selGroups |-> [ table |-> "student_groups", key |-> "name", into |-> "dbGroups",
                    next |-> "selOldTTs" ] ]

\* one of the four selects settles: only its data is read, an error leaves data null
SelectLookup(i) ==
  LET c == commits[i]
      l == Lookups[c.pc]
      rows == IF l.table = "student_groups"
              THEN { r \in store.student_groups : r.semester = c.safeSemester }
              ELSE store[l.table]
      lines == IF l.next = "selOldTTs" THEN << Log("Cleaning old slots", c.safeSemester) >>
               ELSE << >>
  IN  /\ AtCall(i, DOMAIN Lookups)
      /\ UNCHANGED store
      /\ \/ /\ Succeeds
            /\ \E list \in FirstMatches(rows, l.key) :
                 Resume(i, l.next, l.into :> Data(list), lines)
         \/ /\ Fails
            /\ Resume(i, l.next, l.into :> NoData, lines)

oldTTsNone(sem) == {}

\* the ids the select of the semester's timetables returns
oldTTs(sem) == { t.id : t \in { q \in store.timetables : q.semester = sem } }

\* the select of the semester's timetables settles
SelectOldTimetables(i) ==
  LET c == commits[i]
      ids == oldTTs(c.safeSemester)
  IN  /\ AtCall(i, { "selOldTTs" })
      /\ UNCHANGED store
      /\ \/ /\ Succeeds
            /\ Resume(i, IF ids # {} THEN "delSlots" ELSE "insTT", "ids" :> ids, << >>)
         \/ /\ Fails
            /\ Resume(i, "insTT", EmptyMap, << >>)

DeleteOldSlotsKept(i) ==
  /\ AtCall(i, { "delSlots" })
  /\ Resume(i, "delTTs", EmptyMap, << >>)
  /\ Succeeds
  /\ UNCHANGED store

\* the delete of the old timetables' slots settles (its result is not read)
DeleteOldSlots(i) ==
  LET c == commits[i]
  IN  /\ AtCall(i, { "delSlots" })
      /\ Resume(i, "delTTs", EmptyMap, << >>)
      /\ \/ /\ Succeeds
            /\ store' = [ store EXCEPT
                 !.timetable_slots = { s \in @ : s.timetable_id \notin c.ids } ]
         \/ /\ Fails
            /\ UNCHANGED store

\* the delete of the old timetables settles (its result is not read).  Where slots still
\* refer to them the store, whose schema is not part of the code, removes those slots
\* too, keeps them, or rejects the delete.
DeleteOldTimetables(i) ==
  LET c == commits[i]
      referring == { s \in store.timetable_slots : s.timetable_id \in c.ids }
  IN  /\ AtCall(i, { "delTTs" })
      /\ Resume(i, "insTT", EmptyMap, << >>)
      /\ \/ /\ Succeeds
            /\ \E kept \in { {}, referring } :
                 store' = [ store EXCEPT
                   !.timetables = { t \in @ : t.id \notin c.ids },
                   !.timetable_slots = (@ \ referring) \cup kept ]
         \/ /\ (referring # {} /\ Succeeds) \/ Fails
            /\ UNCHANGED store

\* the insert of the new timetable settles; with its id the slots are mapped
\* (name, academic_year, status, lunch_start, lunch_end, created_by are left out)
InsertTimetable(i) ==
  LET c == commits[i]
      ttId == store.nextId
      mapped == [ k \in 1..Len(c.parsedSlots) |-> MapSlot(c, ttId, c.parsedSlots[k]) ]
  IN  /\ AtCall(i, { "insTT" })
      /\ \/ /\ Succeeds
            /\ store' = [ store EXCEPT
                 !.timetables = @ \cup { [ id |-> ttId, semester |-> c.safeSemester ] },
                 !.nextId = @ + 1 ]
            /\ IF slotsToInsert(mapped) # << >>
               THEN Resume(i, "insSlots", [ ttId |-> ttId, mapped |-> mapped ],
                           << Log("Mapping slots", 0) >>)
               ELSE Resume(i, "selClusters", [ ttId |-> ttId, mapped |-> mapped ],
                           << Log("Mapping slots", 0), Log("Error: All slots failed to map", 0),
                              Log("Syncing semester cluster", 0) >>)
         \/ /\ Fails
            /\ UNCHANGED store
            /\ Throw(i)

\* dropCount: the mapped slots that were dropped
dropCount(mapped) == Len(SelectSeq(mapped, LAMBDA m : m.dropped))

\* the insert of the slots settles
InsertSlots(i) ==
  LET c == commits[i]
      batch == slotsToInsert(c.mapped)
  IN  /\ AtCall(i, { "insSlots" })
      /\ \/ /\ Succeeds
            /\ store' = [ store EXCEPT
                 !.timetable_slots = @ \cup Inserted(store.nextId, batch),
                 !.nextId = @ + Len(batch) ]
            /\ Resume(i, "selClusters", EmptyMap,
                      << Log("SUCCESS! Inserted slots", Len(batch)) >>
                      \o (IF dropCount(c.mapped) > 0
                          THEN << Log("Warning: slots were dropped", dropCount(c.mapped)) >>
                          ELSE << >>)
                      \o << Log("Syncing semester cluster", 0) >>)
         \/ /\ Fails
            /\ UNCHANGED store
            /\ Throw(i)

\* where the commit goes on once the lookups allow the expertise step, with the lines logged
ToExpertise(c) ==
  IF c.dbSubjects.data /\ c.dbProfs.data
  THEN [ pc |-> IF expertiseRows(c) # << >> THEN "delExpertise" ELSE "done",
         lines |-> << Log("Syncing professor expertise", 0) >> ]
  ELSE [ pc |-> "done", lines |-> << >> ]

\* where the commit goes on once the cluster is known, with the lines logged
ToRequirements(c) ==
  IF c.dbSubjects.data /\ c.dbSubjects.rows # {}
  THEN [ pc |-> "delReqs", lines |-> << Log("Syncing cluster requirements", 0) >> ]
  ELSE ToExpertise(c)

\* the select of the semester's clusters settles: the first one returned is reused
SelectClusters(i) ==
  LET c == commits[i]
      existing == { k.id : k \in { q \in store.semester_clusters :
                                     q.semester_number = c.safeSemester } }
  IN  /\ AtCall(i, { "selClusters" })
      /\ UNCHANGED store
      /\ \/ /\ Succeeds
            /\ existing # {}
            /\ \E id \in existing :
                 Resume(i, ToRequirements(c).pc, "clusterId" :> id,
                        << Log("Reusing existing cluster", c.safeSemester) >>
                        \o ToRequirements(c).lines)
         \/ /\ (existing = {} /\ Succeeds) \/ Fails
            /\ Resume(i, "insCluster", EmptyMap, << >>)

\* the insert of a cluster for the semester settles
\* (batch_year, department, is_active are left out)
InsertCluster(i) ==
  LET c == commits[i]
  IN  /\ AtCall(i, { "insCluster" })
      /\ \/ /\ Succeeds
            /\ store' = [ store EXCEPT
                 !.semester_clusters =
                    @ \cup { [ id |-> store.nextId, semester_number |-> c.safeSemester ] },
                 !.nextId = @ + 1 ]
            /\ Resume(i, ToRequirements(c).pc, "clusterId" :> store.nextId,
                      << Log("Created cluster", c.safeSemester) >> \o ToRequirements(c).lines)
         \/ /\ Fails
            /\ UNCHANGED store
            /\ Throw(i)

\* the delete of the cluster's requirements settles (its result is not read)
DeleteRequirements(i) ==
  LET c == commits[i]
  IN  /\ AtCall(i, { "delReqs" })
      /\ IF subjectIdsOf(c) # << >> THEN Resume(i, "insReqs", EmptyMap, << >>)
         ELSE Resume(i, ToExpertise(c).pc, EmptyMap, ToExpertise(c).lines)
      /\ \/ /\ Succeeds
            /\ store' = [ store EXCEPT
                 !.cluster_requirements = { q \in @ : q.cluster_id # c.clusterId } ]
         \/ /\ Fails
            /\ UNCHANGED store

\* the insert of the cluster's requirements settles
InsertRequirements(i) ==
  LET c == commits[i]
      ids == subjectIdsOf(c)
      batch == [ k \in 1..Len(ids) |-> [ cluster_id |-> c.clusterId, subject_id |-> ids[k] ] ]
  IN  /\ AtCall(i, { "insReqs" })
      /\ \/ /\ Succeeds
            /\ store' = [ store EXCEPT
                 !.cluster_requirements = @ \cup Inserted(store.nextId, batch),
                 !.nextId = @ + Len(batch) ]
            /\ Resume(i, ToExpertise(c).pc, EmptyMap,
                      << Log("Linked subjects to cluster", Len(ids)) >> \o ToExpertise(c).lines)
         \/ /\ Fails
            /\ UNCHANGED store
            /\ Throw(i)

\* the delete of the stale expertise of the imported subjects settles (its result is not
\* read; there are expertise rows, so the list of imported subject ids is not empty)
DeleteExpertise(i) ==
  LET c == commits[i]
      importedSubjectIds == { subjectIdsOf(c)[k] : k \in 1..Len(subjectIdsOf(c)) }
  IN  /\ AtCall(i, { "delExpertise" })
      /\ Resume(i, "insExpertise", EmptyMap, << >>)
      /\ \/ /\ Succeeds
            /\ store' = [ store EXCEPT
                 !.professor_expertise = { q \in @ : q.subject_id \notin importedSubjectIds } ]
         \/ /\ Fails
            /\ UNCHANGED store

\* the insert of the expertise rows settles (preference_level is left out; the navigation
\* to the timetable view a second later is not modelled)
InsertExpertise(i) ==
  LET c == commits[i]
      batch == expertiseRows(c)
  IN  /\ AtCall(i, { "insExpertise" })
      /\ \/ /\ Succeeds
            /\ store' = [ store EXCEPT
                 !.professor_expertise = @ \cup Inserted(store.nextId, batch),
                 !.nextId = @ + Len(batch) ]
            /\ Resume(i, "done", EmptyMap,
                      << Log("Saved expertise links", Len(batch)) >>)
         \/ /\ Fails
            /\ UNCHANGED store
            /\ Throw(i)

(***************************************************************************)
(* The importer and the store                                              *)
(***************************************************************************)
\* a sheet with two classes in one room, a lecture and a practical, and no metadata
CommitSheet ==
  Sheet(<< TitleRow,
           << DayCell, RangeOf(<< 8, 50, 9, 50, 1 >>), RangeOf(<< 9, 50, 10, 50, 1 >>) >>,
           << << "M", "O", "N" >>, << "C", "S", "1", "0", "1", " ", "(", "L", ")", " ", "(", "C", "C", "3", "-", "5", "1", "0", "6", ")" >>, << "M", "A", "1", "0", "2", " ", "(", "P", ")", " ", "(", "C", "C", "3", "-", "5", "1", "0", "6", ")" >> >> >>, << >>)

\* the files a user chooses from
Files == { CommitSheet, TooShortSheet, NoTimesSheet }

\* the store after an earlier import for semester 1: one lecture of CS101 for section All
OldStore ==
  [ subjects |-> { [ id |-> 1, code |-> << "C", "S", "1", "0", "1" >>, name |-> << "C", "S", "1", "0", "1" >>,
                     lectures |-> undefined, tutorials |-> undefined,
                     practicals |-> undefined ] },
    professors |-> { [ id |-> 2, name |-> Unknown, email |-> emailOf(Unknown) ] },
    rooms |-> { [ id |-> 3, name |-> TBA, room_type |-> "Lecture" ] },
    student_groups |-> { [ id |-> 4, name |-> All, semester |-> 1 ] },
    timetables |-> { [ id |-> 5, semester |-> 1 ] },
    timetable_slots |-> { [ id |-> 6, timetable_id |-> 5, subject_id |-> 1, professor_id |-> 2,
                            room_id |-> 3, student_group_id |-> 4, day_of_week |-> 1,
                            start_time |-> << "8", ":", "5", "0" >>, end_time |-> << "9", ":", "5", "0" >>,
                            slot_type |-> "Lecture" ] },
    semester_clusters |-> { [ id |-> 7, semester_number |-> 1 ] },
    cluster_requirements |-> { [ id |-> 8, cluster_id |-> 7, subject_id |-> 1 ] },
    professor_expertise |-> {}, nextId |-> 9 ]

\* the fields of a row that the commit resolves, as edited below
CommitFields == { "subjectCode", "facultyName" }

Upload == \E sheet \in Files : HandleFileUpload(sheet)

CommitEdit ==
  \E k \in 1..Len(parsedSlots) : \E field \in CommitFields : \E value \in EditTexts :
    HandleSlotChange(parsedSlots[k].id, field, value)

Semester == \E n \in 1..MaxSemester : SetSemester(n)

Save == HandleUploadToDB

Upserts == \E i \in 1..Len(commits) : UpsertDependency(i)

Selects == \E i \in 1..Len(commits) : SelectLookup(i)

OldTimetables == \E i \in 1..Len(commits) : SelectOldTimetables(i)

OldSlotsDeleted == \E i \in 1..Len(commits) : DeleteOldSlots(i)

OldTimetablesDeleted == \E i \in 1..Len(commits) : DeleteOldTimetables(i)

TimetableInserted == \E i \in 1..Len(commits) : InsertTimetable(i)

SlotsInserted == \E i \in 1..Len(commits) : InsertSlots(i)

Clusters == \E i \in 1..Len(commits) : SelectClusters(i)

ClusterInserted == \E i \in 1..Len(commits) : InsertCluster(i)

RequirementsDeleted == \E i \in 1..Len(commits) : DeleteRequirements(i)

RequirementsInserted == \E i \in 1..Len(commits) : InsertRequirements(i)

ExpertiseDeleted == \E i \in 1..Len(commits) : DeleteExpertise(i)

ExpertiseInserted == \E i \in 1..Len(commits) : InsertExpertise(i)

\* a call awaited by a commit settles
Settle ==
  \/ Upserts
  \/ Selects
  \/ OldTimetables
  \/ OldSlotsDeleted
  \/ OldTimetablesDeleted
  \/ TimetableInserted
  \/ SlotsInserted
  \/ Clusters
  \/ ClusterInserted
  \/ RequirementsDeleted
  \/ RequirementsInserted
  \/ ExpertiseDeleted
  \/ ExpertiseInserted

Next ==
  \/ Upload
  \/ Load
  \/ Edit
  \/ CommitEdit
  \/ Delete
  \/ HandleAddRow
  \/ Discard
  \/ Filter
  \/ Semester
  \/ Save
  \/ Settle

Spec == Init /\ [][Next]_vars

(***************************************************************************)
(* Uploads and review, without commits                                     *)
(***************************************************************************)
NextUpload ==
  \/ Upload
  \/ Load
  \/ Delete
  \/ HandleAddRow
  \/ Discard

SpecUpload == Init /\ [][NextUpload]_vars

(***************************************************************************)
(* One commit of a reviewed file into a store that holds an earlier import *)
(***************************************************************************)
InitCommit == Pending({ CommitSheet }, { OldStore }, [ uploads |-> 0, commits |-> 1, failures |-> 1 ])

NextCommit ==
  \/ Load
  \/ CommitEdit
  \/ Semester
  \/ Save
  \/ Settle

SpecCommit == InitCommit /\ [][NextCommit]_vars

(***************************************************************************)
(* Properties of a commit                                                  *)
(***************************************************************************)
\* the rows whose key column equals a name, case-insensitively
Matches(rows, key, name) == { r \in rows : toLowerCase(r[key]) = toLowerCase(name) }

\* the sections of a semester
Partition(sem) == { g \in store.student_groups : g.semester = sem }

\* C6 (as claimed): at commit a reviewed slot is left out of the insert batch if and only
\* if its subject code has no case-insensitive exact match among the store's subjects or
\* its section name has none among the sections of the semester; a slot that is kept and
\* whose instructor name is unmatched carries the id of the Unknown instructor, and one
\* whose room is unmatched carries a null room.
C6_DroppedIffUnmatched ==
  \A i \in 1..Len(commits) :
    commits[i].mapped # << >> =>
      \A k \in 1..Len(commits[i].parsedSlots) :
        LET slot == commits[i].parsedSlots[k]
            m == commits[i].mapped[k]
        IN  /\ m.dropped <=>
                 \/ Matches(store.subjects, "code", slot.subjectCode) = {}
                 \/ Matches(Partition(commits[i].safeSemester), "name", slot.section) = {}
            /\ ~m.dropped =>
                 /\ Matches(store.professors, "name", slot.facultyName) = {} =>
                      m.row.professor_id
                        \in { r.id : r \in Matches(store.professors, "name", Unknown) }
                 /\ Matches(store.rooms, "name", slot.room) = {} => m.row.room_id = undefined

(***************************************************************************)
(* Properties of an upload                                                 *)
(***************************************************************************)
\* the sheet of the last parse has no row at the header index, or no cell of that row
\* holds a time range
FatalSheet ==
  /\ lastParse.ran
  /\ \/ NumRows(lastParse.sheet.rows) < 2
     \/ \A c \in 0..(Len(Row(lastParse.sheet.rows, TIME_ROW_INDEX)) - 1) :
          ~HeaderCellTime(Cell(Row(lastParse.sheet.rows, TIME_ROW_INDEX), c)).ok

\* C7 (as claimed): when the sheet has fewer than two rows or its header row yields no
\* time column, the import aborts: no slot is extracted, the slot list is empty
\* afterwards, an error is logged, and no commit can be started from that state.
C7_FatalAbort ==
  FatalSheet =>
    /\ lastParse.slots = << >>
    /\ parsedSlots = << >>
    /\ logs # << >>
    /\ logs[Len(logs)].kind \in { "Error: File too short", "Error: No time ranges found" }
    /\ ~SaveVisible
    /\ ~ENABLED HandleUploadToDB

(***************************************************************************)
(* Properties of the header conversion                                     *)
(***************************************************************************)
\* the hour the conversion is said to give
ShiftedHour(h) == IF h >= 1 /\ h <= 7 THEN h + 12 ELSE h

\* the range << h1, m1, h2, m2, style >> a header cell was built from
RangeAt(c) ==
  CHOOSE x \in Ranges : RangeOf(x) = Cell(Row(lastParse.sheet.rows, TIME_ROW_INDEX), c)

\* C11 (as claimed): for every header cell that holds a time range, both ends of the
\* column's range have the hour of the cell shifted by 12 when it is in 1..7 and kept
\* otherwise, and the minutes of the cell.
C11_HourConversion ==
  Parsed =>
    \A c \in RangeCells :
      /\ c \in TimeCols
      /\ ColonAt(lastParse.colToTime[c].start) > 0
      /\ TextToNum(HourPart(lastParse.colToTime[c].start)) = ShiftedHour(RangeAt(c)[1])
      /\ MinutePart(lastParse.colToTime[c].start) = TwoDigits(RangeAt(c)[2])
      /\ TextToNum(HourPart(lastParse.colToTime[c].end)) = ShiftedHour(RangeAt(c)[3])
      /\ MinutePart(lastParse.colToTime[c].end) = TwoDigits(RangeAt(c)[4])

\* ------------------------------------------------------------------------------------
\* Two commits of one reviewed list, one after the other

InitTwice == Pending({ CommitSheet }, { OldStore }, [ uploads |-> 0, commits |-> 2, failures |-> 1 ])

NextTwice ==
  \/ Load
  \/ CommitEdit
  \/ Save
  \/ Settle

SpecTwice == InitTwice /\ [][NextTwice]_vars

\* both commits of the behaviour ran to their end without reaching the catch block, with
\* the same slot list and the same semester
TwiceCommitted ==
  /\ Len(commits) = 2
  /\ \A i \in 1..2 : commits[i].pc = "done" /\ ~commits[i].threw
  /\ commits[1].parsedSlots = commits[2].parsedSlots
  /\ commits[1].safeSemester = commits[2].safeSemester

\* C12: when the same reviewed slot list has been committed twice in a row to the same
\* semester and both commits ran to completion, the semester's set of schedule records
\* after the second commit is the set it had after the first one.
C12_SecondCommitSameRecords ==
  TwiceCommitted => ScheduleRecords(commits[2].safeSemester) = commits[2].before

\* ------------------------------------------------------------------------------------
\* Two commits whose store calls may interleave: the sheet is chosen again while the
\* first commit is awaiting a call, its load clears the busy flag, and Save is clicked
\* a second time.  Every store call returns its result.

OneSlotSheet ==
  Sheet(<< TitleRow,
           << DayCell, RangeOf(<< 8, 50, 9, 50, 1 >>) >>,
           << << "M", "O", "N" >>, << "C", "S", "1", "0", "1", " ", "(", "L", ")", " ", "(", "C", "C", "3", "-", "5", "1", "0", "6", ")" >> >> >>, << >>)

Reupload == HandleFileUpload(OneSlotSheet)

InitOverlap ==
  Pending({ OneSlotSheet }, { EmptyStore }, [ uploads |-> 1, commits |-> 2, failures |-> 0 ])

NextOverlap ==
  \/ Reupload
  \/ Load
  \/ Save
  \/ Settle

SpecOverlap == InitOverlap /\ [][NextOverlap]_vars

\* the timetables of a semester
TimetablesOf(sem) == { t \in store.timetables : t.semester = sem }

\* two commits of the same semester have both ended, neither in the catch block
BothCommitted ==
  /\ Len(commits) = 2
  /\ \A i \in 1..2 : commits[i].pc = "done" /\ ~commits[i].threw
  /\ commits[1].safeSemester = commits[2].safeSemester

\* the slots that refer to no timetable of the store
Orphans == { q \in store.timetable_slots : \A t \in store.timetables : t.id # q.timetable_id }

\* C13: two commits for the same semester that run one after the other, every store call
\* returning its result, leave exactly one timetable for the semester, holding the
\* records of the second commit only; an interleaving of their store calls can leave two
\* timetables for that semester, which no serial order produces.
C13_SerialLeavesOneTimetable ==
  (BothCommitted /\ ~commits[2].overlapped) =>
    /\ Cardinality(TimetablesOf(commits[2].safeSemester)) = 1
    /\ \A q \in store.timetable_slots :
         \A t \in TimetablesOf(commits[2].safeSemester) :
           q.timetable_id = t.id => t.id = commits[2].ttId

C13_Witness ==
  /\ BothCommitted
  /\ commits[2].overlapped
  /\ Cardinality(TimetablesOf(commits[2].safeSemester)) = 2

\* ------------------------------------------------------------------------------------
\* Upload, review and one commit, whose store calls all return their results, into a
\* store that holds an earlier import

\* the store after an earlier import that stopped before its cluster was written
SlotsOnlyStore == [ OldStore EXCEPT !.semester_clusters = {}, !.cluster_requirements = {} ]

InitBefore ==
  Pending({ OneSlotSheet }, { SlotsOnlyStore },
          [ uploads |-> 1, commits |-> 1, failures |-> 0 ])

NextBefore ==
  \/ Reupload
  \/ Load
  \/ CommitEdit
  \/ Delete
  \/ HandleAddRow
  \/ Discard
  \/ Filter
  \/ Save
  \/ Settle

SpecBefore == InitBefore /\ [][NextBefore]_vars

\* C14: as long as Save has not been clicked, no step changes the store: choosing a file,
\* its parse, an edit of a field, the delete of a slot, an added row, Discard and a
\* change of a filter all leave the store as it was.
C14_NoStoreCallBeforeCommit == [][Len(commits) = 0 => store' = store]_vars

\* a file was chosen again and loaded, the review actions were used up and a row was
\* added, Save was not clicked, and the store is the one of the start
C14_Witness ==
  /\ Len(commits) = 0
  /\ budget.uploads = MaxUploads
  /\ budget.edits = MaxEdits
  /\ Len(readers) = 0
  /\ \E k \in 1..Len(parsedSlots) : parsedSlots[k].subjectCode = << >>
  /\ store = SlotsOnlyStore

\* ------------------------------------------------------------------------------------
\* A commit that stops between the deletes and the insert of the new slots

\* commit i found records of its semester at the click, deleted them, and then stopped at
\* the error of the insert of the new timetable or of the insert of the new slots
StoppedAfterDelete(i) ==
  /\ commits[i].pc = "done"
  /\ commits[i].before # {}
  /\ commits[i].failedAt \in { "insTT", "insSlots" }

\* commit i, none of whose calls has failed, awaits the insert of the new timetable or
\* of the new slots: the place where an abort leaves it
AwaitingInsert(i) ==
  /\ commits[i].pc \in { "insTT", "insSlots" }
  /\ budget.failures = 0

\* C15: a commit that has deleted the old timetables and slots of its semester and then
\* stops before the new slots are inserted, because it is aborted there or because the
\* new-timetable insert or the slot insert returns an error, leaves the semester with no
\* schedule records: the records it found are not put back.
C15_StoppedCommitLeavesNoRecords ==
  \A i \in 1..Len(commits) :
    (StoppedAfterDelete(i) \/ AwaitingInsert(i)) =>
      ScheduleRecords(commits[i].safeSemester) = {}

C15_Witness ==
  \E i \in 1..Len(commits) :
    /\ StoppedAfterDelete(i)
    /\ commits[i].failedAt = "insSlots"
    /\ OldStore.timetable_slots # {}
    /\ store.timetable_slots = {}

\* the lines of the cell (r, c) that lines.forEach examines: none for a cell that is an
\* ignored word or has at most two characters
LinesExamined(r, c) ==
  IF InSeq(toUpperCase(CellAt(r, c)), IGNORE_EXACT) \/ Len(CellAt(r, c)) <= 2 THEN << >>
  ELSE SplitLines(InsertBreaks(CellAt(r, c), 1))

\* C16 (as claimed): after a parse every grid cell has as many diagnostic records as it
\* has lines examined, one per line, so every line that gave no slot has a record.
C16_OneRecordPerLine ==
  Parsed =>
    \A r \in GridRows, c \in TimeCols :
      InDayRow(r) => Cardinality(RecordsFrom(r, c)) = Len(LinesExamined(r, c))

\* the rows of the sheet that hold both a "course code" and a "faculties" token
HeaderMatches ==
  { r \in 0..(NumRows(lastParse.sheet.rows) - 1) : IsMetadataHeader(Row(lastParse.sheet.rows, r)) }

FirstMatch == Least(HeaderMatches)

\* C17 (as claimed): when several rows hold both tokens, the first of them is the metadata
\* header: the metadata rows start below it, no slot comes from it or from a row below it,
\* and the code, name, credit and faculty columns are those its cells name.
C17_FirstHeaderWins ==
  (Parsed /\ Cardinality(HeaderMatches) >= 2) =>
    /\ lastParse.md =
         ScanHeaderCells(Row(lastParse.sheet.rows, FirstMatch),
                         Len(Row(lastParse.sheet.rows, FirstMatch)) - 1,
                         [ NoMetadata EXCEPT !.metadataStartRow = FirstMatch ])
    /\ \A k \in 1..Len(lastParse.slots) : lastParse.slots[k].srcRow < FirstMatch

\* the metadata rows of the sheet that were read, and the texts of one of them
MetadataRows ==
  { r \in (lastParse.md.metadataStartRow + 1)..(NumRows(lastParse.sheet.rows) - 1) :
      /\ lastParse.md.metadataStartRow # -1
      /\ Len(Cell(Row(lastParse.sheet.rows, r), lastParse.md.codeColIdx)) > 0 }

CodeOf(r) == CellAt(r, lastParse.md.codeColIdx)

FacultyOf(r) == CellAt(r, lastParse.md.facultyColIdx)

\* the comma-separated parts of the faculty text of row r, trimmed; none for an empty
\* text and for "Unknown"
FacultyParts(r) ==
  IF Len(FacultyOf(r)) = 0 \/ toLowerCase(FacultyOf(r)) = toLowerCase(Unknown) THEN << >>
  ELSE [ n \in 1..Len(SplitFaculty(FacultyOf(r), 1, 1)) |->
           Trim(SplitFaculty(FacultyOf(r), 1, 1)[n]) ]

Parenthesized(part) == Match(NameSectionsRe, part).ok

DefaultOf(r) == Get(lastParse.facultyMap[CodeOf(r)], DefaultKey)

\* C18 (as claimed): the one part of a faculty text, when it has no section list, is the
\* subject's default instructor; when the text has two or more parts the default stays
\* Unknown, whether or not a part has a section list.
C18_DefaultOnlyFromSinglePart ==
  Parsed =>
    \A r \in MetadataRows :
      /\ (Len(FacultyParts(r)) = 1 /\ ~Parenthesized(FacultyParts(r)[1])
            /\ Len(FacultyParts(r)[1]) > 0) => DefaultOf(r) = FacultyParts(r)[1]
      /\ Len(FacultyParts(r)) >= 2 => DefaultOf(r) = Unknown

\* the name before the parenthesis of a faculty part, and the section tokens between its
\* parentheses, a token written "Sec X" read as X
NameOf(part) == Trim(SubSeq(part, 1, Least({ i \in 1..Len(part) : part[i] = "(" }) - 1))

ListOf(part) ==
  SubSeq(part, Least({ i \in 1..Len(part) : part[i] = "(" }) + 1,
         Least({ i \in 1..Len(part) : part[i] = ")" }) - 1)

Bare(token) ==
  IF Len(token) > Len(SecPrefix) /\ SubSeq(token, 1, Len(SecPrefix)) = SecPrefix
  THEN Trim(SubSeq(token, Len(SecPrefix) + 1, Len(token)))
  ELSE token

TokensOf(part) ==
  IF ~Parenthesized(part) THEN {}
  ELSE { Bare(Trim(SplitOn(ListOf(part), {",", "&"})[n])) :
           n \in 1..Len(SplitOn(ListOf(part), {",", "&"})) }

\* the parts of metadata row r that list the section token x
PartsListing(r, x) == { n \in 1..Len(FacultyParts(r)) : x \in TokensOf(FacultyParts(r)[n]) }

\* the metadata rows of a subject code
RowsOf(code) == { r \in MetadataRows : CodeOf(r) = code }

\* C19: for a subject whose faculty text holds Name (SectionList), every section token X
\* of the list is mapped to Name as X and as Sec X; a slot of the subject with section
\* Sec X has instructor Name, a slot whose section is in no list has the subject's
\* default instructor, and a slot of a subject without a metadata row has Unknown.
C19_SectionInstructor ==
  Parsed =>
    /\ \A r \in MetadataRows : \A n \in 1..Len(FacultyParts(r)) :
         \A x \in TokensOf(FacultyParts(r)[n]) :
           /\ Get(lastParse.facultyMap[CodeOf(r)], x) = NameOf(FacultyParts(r)[n])
           /\ Get(lastParse.facultyMap[CodeOf(r)], SecPrefix \o x) = NameOf(FacultyParts(r)[n])
    /\ \A k \in 1..Len(lastParse.slots) :
         LET slot == lastParse.slots[k]
         IN  /\ RowsOf(slot.subjectCode) = {} => slot.facultyName = Unknown
             /\ \A r \in RowsOf(slot.subjectCode) :
                  /\ \A n \in PartsListing(r, Bare(slot.section)) :
                       slot.facultyName = NameOf(FacultyParts(r)[n])
                  /\ PartsListing(r, Bare(slot.section)) = {} =>
                       slot.facultyName = DefaultOf(r)

\* a slot with section Sec A of a subject whose faculty text lists A for one instructor
\* and has another default, and a slot of a subject without a metadata row
C19_Witness ==
  /\ Parsed
  /\ \E k \in 1..Len(lastParse.slots) : \E r \in RowsOf(lastParse.slots[k].subjectCode) :
       /\ PartsListing(r, Bare(lastParse.slots[k].section)) # {}
       /\ lastParse.slots[k].section = SecPrefix \o << "A" >>
       /\ lastParse.slots[k].facultyName # DefaultOf(r)

\* commit i has received the result of the call pc without throwing there or before
Passed(i, pc, earlier) ==
  /\ commits[i].pc \notin earlier \cup { pc }
  /\ commits[i].failedAt \notin earlier \cup { pc }

\* C20 (as claimed): in every commit, once the instructor upsert has returned the store
\* holds an instructor named Unknown; once the instructors were selected the fallback id
\* found for Unknown is defined; and every slot in the store has an instructor id.
C20_UnknownFallbackDefined ==
  /\ \A i \in 1..Len(commits) :
       /\ Passed(i, "upsertProfs", { "upsertSubjects" }) =>
            \E p \in store.professors : p.name = Unknown
       /\ Passed(i, "selProfs", { "upsertSubjects", "upsertProfs", "upsertRooms",
                                  "upsertGroups", "selSubjects" }) =>
            findId(commits[i].dbProfs, "name", Unknown) # undefined
  /\ \A s \in store.timetable_slots : s.professor_id # undefined

\* ------------------------------------------------------------------------------------
\* Review of rooms and types, then one commit whose store calls all return their results

RoomTexts == { << >>, TBA, << "L", "a", "b", "1" >> }

RoomEdit ==
  \E k \in 1..Len(parsedSlots) :
    \/ \E value \in RoomTexts : HandleSlotChange(parsedSlots[k].id, "room", value)
    \/ \E value \in { TYPES[i] : i \in 1..Len(TYPES) } :
         HandleSlotChange(parsedSlots[k].id, "type", value)

InitRooms ==
  Pending({ CommitSheet }, { SlotsOnlyStore }, [ uploads |-> 0, commits |-> 1, failures |-> 0 ])

NextRooms ==
  \/ Load
  \/ RoomEdit
  \/ Save
  \/ Settle

SpecRooms == InitRooms /\ [][NextRooms]_vars

\* the reviewed slots of commit i that reference the room named n
SlotsIn(i, n) == { k \in 1..Len(commits[i].parsedSlots) : commits[i].parsedSlots[k].room = n }

\* the rooms upsert of commit i has returned without an error
RoomsUpserted(i) == Passed(i, "upsertRooms", { "upsertSubjects", "upsertProfs" })

\* C21 (as claimed): once the rooms upsert of a commit has returned, each room of the
\* reviewed slots is stored as a Lab exactly when every reviewed slot that references it
\* is Practical, and as a Lecture room when a Lecture or Tutorial slot references it.
C21_LabIffAllPractical ==
  \A i \in 1..Len(commits) :
    RoomsUpserted(i) =>
      \A k \in 1..Len(commits[i].parsedSlots) :
        \E room \in store.rooms :
          /\ room.name = commits[i].parsedSlots[k].room
          /\ room.room_type = "Lab" <=>
               \A j \in SlotsIn(i, room.name) : commits[i].parsedSlots[j].type = "Practical"

\* ------------------------------------------------------------------------------------
\* Review of a sheet with declared hours, then one commit whose store calls all return
\* their results

\* a sheet whose two slots are the hours its metadata declares
DeclaredSheet ==
  Sheet(<< TitleRow,
           << DayCell, RangeOf(<< 8, 50, 9, 50, 1 >>), RangeOf(<< 9, 50, 10, 50, 1 >>) >>,
           << << "M", "O", "N" >>, << "C", "S", "1", "0", "1", " ", "(", "L", ")" >>, << "M", "A", "1", "0", "2", " ", "(", "T", ")" >> >>,
           << << "C", "o", "u", "r", "s", "e", " ", "C", "o", "d", "e" >>, << "C", "o", "u", "r", "s", "e", " ", "N", "a", "m", "e" >>, << "L", "-", "T", "-", "P", "-", "S" >>, << "F", "a", "c", "u", "l", "t", "i", "e", "s" >> >>,
           << << "C", "S", "1", "0", "1" >>, << "P", "r", "o", "g", "r", "a", "m", "m", "i", "n", "g" >>, << "1", "-", "0", "-", "0", "-", "0" >>, << "D", "r", ".", " ", "A", " ", "R", "a", "o" >> >>,
           << << "M", "A", "1", "0", "2" >>, << "M", "a", "t", "h", "e", "m", "a", "t", "i", "c", "s" >>, << "0", "-", "1", "-", "0", "-", "0" >>, << "P", "r", "o", "f", ".", " ", "B", " ", "S", "e", "n" >> >> >>, << >>)

InitAdvisory ==
  Pending({ DeclaredSheet }, { SlotsOnlyStore },
          [ uploads |-> 0, commits |-> 1, failures |-> 0 ])

NextAdvisory ==
  \/ Load
  \/ Edit
  \/ Delete
  \/ Save
  \/ Settle

SpecAdvisory == InitAdvisory /\ [][NextAdvisory]_vars

\* the slots stored under the timetable of commit i, without their ids
StoredSlots(i) ==
  { [ f \in DOMAIN s \ { "id" } |-> s[f] ] :
      s \in { q \in store.timetable_slots : q.timetable_id = commits[i].ttId } }

\* commit i has ended without an error
Completed(i) == commits[i].pc = "done" /\ ~commits[i].threw

\* C22: the cross-check does not gate the commit: whenever the reviewed slot list is not
\* empty and nothing is loading, Save can be clicked, whatever the cross-check reports;
\* and a commit that ends has stored every slot it mapped, whatever the cross-check
\* reports.
C22_CrossCheckNeverGates ==
  /\ (Len(parsedSlots) > 0 /\ ~loading /\ budget.commits < MaxCommits) =>
       ENABLED HandleUploadToDB
  /\ \A i \in 1..Len(commits) :
       Completed(i) =>
         StoredSlots(i) = { slotsToInsert(commits[i].mapped)[k] :
                              k \in 1..Len(slotsToInsert(commits[i].mapped)) }

\* a commit of a list that the cross-check reports as inconsistent has ended and stored
\* its slots
C22_Witness ==
  \E i \in 1..Len(commits) :
    /\ Completed(i)
    /\ commits[i].parsedSlots = parsedSlots
    /\ anyBad
    /\ StoredSlots(i) # {}

\* C23 (as claimed): a commit that has mapped its slots and dropped at least one of them,
\* all of them included, and has come to its end, has logged the warning with the number
\* of dropped slots and has not ended in the catch block.
C23_DropWarningLogged ==
  \A i \in 1..Len(commits) :
    (commits[i].pc = "done" /\ dropCount(commits[i].mapped) > 0) =>
      /\ InSeq(Log("Warning: slots were dropped", dropCount(commits[i].mapped)), logs)
      /\ ~commits[i].threw

\* C25 (as claimed): a commit leaves every reviewed slot with an empty subject code out of
\* the slots it inserts, and the store never holds a subject with an empty code.
C25_EmptySubjectDropped ==
  /\ \A i \in 1..Len(commits) : \A k \in 1..Len(commits[i].mapped) :
       commits[i].parsedSlots[k].subjectCode = << >> => commits[i].mapped[k].dropped
  /\ \A s \in store.subjects : s.code # << >>

\* ---------------------------------------------------------------------------------------
\* C26 (as claimed): at most one commit is in progress at any time; while a commit has
\* started and not finished, the commit action is not available, whatever uploads and parse
\* completions interleave with its steps.
InProgress == { i \in 1..Len(commits) : commits[i].pc # "done" }

C26_OneCommitAtATime ==
  /\ Cardinality(InProgress) <= 1
  /\ InProgress # {} => ~SaveVisible

\* ---------------------------------------------------------------------------------------
\* A commit stopped by the error of a dependency upsert

\* commit i stopped at the error of one of the four dependency upserts
StoppedAtUpsert(i) == commits[i].failedAt \in DOMAIN Dependencies

\* C27: when one of the four dependency upserts (subjects, instructors, rooms, sections)
\* returns an error, the commit stops before any delete: the timetables and slots the store
\* held are all still there, and no timetable and no slot has been inserted.
C27_UpsertErrorStopsBeforeDelete ==
  \A i \in 1..Len(commits) :
    StoppedAtUpsert(i) =>
      /\ store.timetables = OldStore.timetables
      /\ store.timetable_slots = OldStore.timetable_slots
      /\ ScheduleRecords(commits[i].safeSemester) = commits[i].before
      /\ commits[i].ttId = undefined

C27_Witness ==
  \E i \in 1..Len(commits) :
    /\ commits[i].pc = "done"
    /\ commits[i].failedAt = "upsertGroups"
    /\ commits[i].before # {}

\* ---------------------------------------------------------------------------------------
\* Commits that run one at a time, with reviews of rooms and types and changes of the
\* semester between them; every store call returns its result

InitSerial ==
  Pending({ CommitSheet }, { SlotsOnlyStore }, [ uploads |-> 0, commits |-> 2, failures |-> 0 ])

NextSerial ==
  \/ Load
  \/ RoomEdit
  \/ Semester
  \/ Save
  \/ Settle

SpecSerial == InitSerial /\ [][NextSerial]_vars

\* every commit so far has ended without an error
AllCompleted == \A i \in 1..Len(commits) : Completed(i)

\* the slots stored under the timetables of a semester
SlotsOf(sem) ==
  { q \in store.timetable_slots : \E t \in TimetablesOf(sem) : t.id = q.timetable_id }

\* C28: after commits that ran one at a time and to completion, every store call returning
\* its result, the store holds exactly one timetable for the semester of the latest commit,
\* and the schedule records of that semester all belong to that timetable and are the
\* slots the latest commit mapped.
C28_OneTimetableOfLatestCommit ==
  (Len(commits) > 0 /\ AllCompleted) =>
    LET n == Len(commits)
        sem == commits[n].safeSemester
    IN  /\ TimetablesOf(sem) = { t \in store.timetables : t.id = commits[n].ttId }
        /\ Cardinality(TimetablesOf(sem)) = 1
        /\ \A q \in SlotsOf(sem) : q.timetable_id = commits[n].ttId
        /\ StoredSlots(n) =
             { slotsToInsert(commits[n].mapped)[k] :
                 k \in 1..Len(slotsToInsert(commits[n].mapped)) }

C28_Witness ==
  /\ Len(commits) = 2
  /\ AllCompleted
  /\ commits[1].safeSemester = commits[2].safeSemester
  /\ commits[1].parsedSlots # commits[2].parsedSlots
  /\ commits[1].before # {}
  /\ SlotsOf(commits[2].safeSemester) # {}

\* ---------------------------------------------------------------------------------------
\* C29 (as claimed): after completed commits to different semesters, every room the store
\* tags as a Lab is referenced by Practical schedule records only, whatever semester the
\* records belong to.
C29_LabRoomsOnlyPractical ==
  (Len(commits) > 0 /\ AllCompleted) =>
    \A room \in store.rooms :
      room.room_type = "Lab" =>
        \A q \in store.timetable_slots :
          (q.room_id = room.id /\ \E t \in store.timetables : t.id = q.timetable_id) =>
            q.slot_type = "Practical"

\* ---------------------------------------------------------------------------------------
\* Rows with and without a weekday label, a review of the days, and one commit whose store
\* calls all return their results

\* three rows below the header, the first two labelled or not, the third never
DaySheets ==
  { Sheet(<< TitleRow,
             << DayCell, RangeOf(<< 8, 50, 9, 50, 1 >>) >>,
             << d1, << "C", "S", "1", "0", "1", " ", "(", "L", ")" >> >>,
             << d2, << "M", "A", "1", "0", "2", " ", "(", "T", ")" >> >>,
             << << >>, << "C", "S", "1", "0", "1", " ", "(", "P", ")" >> >> >>, << >>) :
      d1 \in { << >>, << "M", "o", "n" >> }, d2 \in { << >>, << "R", "o", "o", "m" >>, << "F", "R", "I", "D", "A", "Y" >>, << "T", "h", "u", "/", "F", "r", "i" >> } }

DayEdit ==
  \E k \in 1..Len(parsedSlots) : \E value \in EditValues("day") :
    HandleSlotChange(parsedSlots[k].id, "day", value)

InitDays ==
  Pending(DaySheets, { SlotsOnlyStore }, [ uploads |-> 0, commits |-> 1, failures |-> 0 ])

NextDays ==
  \/ Load
  \/ DayEdit
  \/ HandleAddRow
  \/ Save
  \/ Settle

SpecDays == InitDays /\ [][NextDays]_vars

\* the nearest weekday-labelled row at or above row r
LabelledRow(r) ==
  Greatest({ q \in (TIME_ROW_INDEX + 1)..r : HasDayToken(toUpperCase(CellAt(q, 0))) })

\* C30: a row whose first cell holds no weekday token takes the day of the nearest
\* labelled row above it; the rows above the first labelled row give no slots and no
\* diagnostic records; every extracted slot has a day that contains one of MON..FRI, and
\* every slot is inserted with day_of_week in 1..5.
C30_DayCarriedAndInRange ==
  /\ Parsed =>
       /\ \A k \in 1..Len(lastParse.slots) :
            LET slot == lastParse.slots[k]
            IN  /\ InDayRow(slot.srcRow)
                /\ slot.day = toUpperCase(CellAt(LabelledRow(slot.srcRow), 0))
                /\ HasDayToken(slot.day)
       /\ \A r \in GridRows : ~InDayRow(r) =>
            /\ \A k \in 1..Len(lastParse.slots) : lastParse.slots[k].srcRow # r
            /\ \A k \in 1..Len(lastParse.debugRows) : lastParse.debugRows[k].rowNum # r + 1
  /\ \A k \in 1..Len(parsedSlots) : HasDayToken(parsedSlots[k].day)
  /\ \A i \in 1..Len(commits) : \A k \in 1..Len(commits[i].mapped) :
       ~commits[i].mapped[k].dropped => commits[i].mapped[k].row.day_of_week \in 1..5
  /\ \A s \in store.timetable_slots : s.day_of_week \in 1..5

\* a file whose first row has no label and whose second has one was parsed: the third
\* row took the day of the second, and the slots were inserted
C30_Witness ==
  /\ \E i \in 1..Len(commits) :
       /\ Completed(i)
       /\ \E k \in 1..Len(commits[i].parsedSlots) :
            /\ commits[i].parsedSlots[k].type = "Practical"
            /\ commits[i].parsedSlots[k].day = << "T", "H", "U", "/", "F", "R", "I" >>
            /\ \E s \in StoredSlots(i) : s.slot_type = "Practical" /\ s.day_of_week = 4
       /\ \A k \in 1..Len(commits[i].parsedSlots) : commits[i].parsedSlots[k].type # "Lecture"

(***************************************************************************)
(* The student custom view: semester, section and subject selection kept   *)
(* in the browser's local storage                                          *)
(***************************************************************************)
\* the section names and the subject codes of the published slots, in the order
\* Array.prototype.sort() gives them
GroupNames == << "A", "B" >>

SubjectCodes == << "CS101", "MA102", "PH103" >>

\* Array.from(new Set(values)).sort()
SortedUnique(order, values) == SelectSeq(order, LAMBDA x : x \in values)

\* the published slots as loadData cleans them (cleanSlots), reduced to the fields the
\* selection reads: none published; two semesters that share section A; two semesters
\* with different sections
PublishedData ==
  { {},
    { [ semester |-> 1, group_name |-> "A", subject_code |-> "CS101" ],
      [ semester |-> 1, group_name |-> "All", subject_code |-> "MA102" ],
      [ semester |-> 1, group_name |-> "B", subject_code |-> "PH103" ],
      [ semester |-> 2, group_name |-> "A", subject_code |-> "PH103" ],
      [ semester |-> 2, group_name |-> "All", subject_code |-> "CS101" ] },
    { [ semester |-> 1, group_name |-> "A", subject_code |-> "CS101" ],
      [ semester |-> 2, group_name |-> "B", subject_code |-> "MA102" ] } }

\* the section buttons of a semester: 'All' is merged in and not offered
groupsOf(allSlots, sem) ==
  SortedUnique(GroupNames,
               { s.group_name : s \in { q \in allSlots : q.semester = sem } }
                 \ { "All", "Sec All" })

\* the subjects of a section of a semester, with those of section All
subjectsOf(allSlots, sem, g) ==
  SortedUnique(SubjectCodes,
               { s.subject_code :
                   s \in { q \in allSlots :
                             q.semester = sem /\ (q.group_name = g \/ q.group_name = "All") } })

\* loadData on a mount of the component: the state starts from the useState defaults, the
\* published slots are fetched, and the selection is restored from the local storage
loadData(v) ==
  LET fresh == [ Closed EXCEPT !.opened = TRUE, !.file = v.file, !.published = v.published,
                               !.my_custom_semester = v.my_custom_semester,
                               !.my_custom_group = v.my_custom_group,
                               !.my_custom_subjects = v.my_custom_subjects ]
      cleanSlots == v.published
      sems == SelectSeq([ n \in 1..MaxSemester |-> n ],
                        LAMBDA n : \E s \in cleanSlots : s.semester = n)
      savedSem == v.my_custom_semester
      savedGroup == v.my_custom_group
      savedSubs == v.my_custom_subjects
      semNum == TextToNum(savedSem)
      groups == groupsOf(cleanSlots, semNum)
      offered == subjectsOf(cleanSlots, semNum, savedGroup)
      loaded == [ fresh EXCEPT !.allSlots = cleanSlots, !.availableSemesters = sems ]
      withSem == [ loaded EXCEPT !.selectedSemester = semNum, !.availableGroups = groups ]
  IN  IF cleanSlots = {} THEN fresh
      ELSE IF ~(Len(savedSem) > 0 /\ InSeq(semNum, sems)) THEN loaded
      ELSE IF ~(savedGroup # "" /\ InSeq(savedGroup, groups)) THEN withSem
      ELSE [ withSem EXCEPT !.selectedGroup = savedGroup,
                            !.availableSubjects = offered,
                            !.selectedSubjects = IF savedSubs.saved THEN savedSubs.list
                                                 ELSE offered ]

\* handleSemesterChange as the earlier copy of the component has it: the saved section
\* and the saved subjects are removed
handleSemesterChangeRemoving(v, sem) ==
  [ v EXCEPT !.selectedSemester = sem,
             !.my_custom_semester = NumToText(sem),
             !.availableGroups = groupsOf(v.allSlots, sem),
             !.selectedGroup = "",
             !.availableSubjects = << >>,
             !.selectedSubjects = << >>,
             !.my_custom_group = "",
             !.my_custom_subjects = [ saved |-> FALSE, list |-> << >> ] ]

\* handleSemesterChange
handleSemesterChange(v, sem) ==
  [ v EXCEPT !.selectedSemester = sem,
             !.my_custom_semester = NumToText(sem),
             !.availableGroups = groupsOf(v.allSlots, sem),
             !.selectedGroup = "",
             !.availableSubjects = << >>,
             !.selectedSubjects = << >> ]

\* handleGroupChange: every subject of the section starts checked
handleGroupChange(v, g) ==
  LET offered == subjectsOf(v.allSlots, v.selectedSemester, g)
  IN  [ v EXCEPT !.selectedGroup = g,
                 !.my_custom_group = g,
                 !.availableSubjects = offered,
                 !.selectedSubjects = offered,
                 !.my_custom_subjects = [ saved |-> TRUE, list |-> offered ] ]

\* toggleSubject
toggleSubject(v, code) ==
  LET prev == v.selectedSubjects
      next == IF InSeq(code, prev) THEN SelectSeq(prev, LAMBDA s : s # code)
              ELSE Append(prev, code)
  IN  [ v EXCEPT !.selectedSubjects = next,
                 !.my_custom_subjects = [ saved |-> TRUE, list |-> next ] ]

selectAllSubjects(v) ==
  [ v EXCEPT !.selectedSubjects = v.availableSubjects,
             !.my_custom_subjects = [ saved |-> TRUE, list |-> v.availableSubjects ] ]

deselectAllSubjects(v) ==
  [ v EXCEPT !.selectedSubjects = << >>,
             !.my_custom_subjects = [ saved |-> TRUE, list |-> << >> ] ]

\* a step of the view: the importer is left alone
ViewStep(next) ==
  /\ view' = next
  /\ UNCHANGED << loading, reviewMode, semester, logs, parsedSlots, subjectMap, ltpsMap,
                  profDiagnostics, filters, slotCounter, readers, commits, store, lastParse,
                  budget >>

\* the view is opened for the first time: one of the two copies of the component the
\* repository holds is mounted, over one state of the published data
Open ==
  /\ ~view.opened
  /\ \E file \in { "part_001", "part_002" } : \E data \in PublishedData :
       ViewStep(loadData([ Closed EXCEPT !.file = file, !.published = data ]))

\* the page is reloaded: the published data and the local storage are as they were
Reload ==
  /\ view.opened
  /\ ViewStep(loadData(view))

\* a semester button is clicked
SemesterChange ==
  \E k \in 1..Len(view.availableSemesters) :
    LET sem == view.availableSemesters[k]
    IN  ViewStep(IF view.file = "part_001" THEN handleSemesterChangeRemoving(view, sem)
                 ELSE handleSemesterChange(view, sem))

\* a section button is clicked: the buttons take no clicks while no semester is selected
GroupChange ==
  /\ view.selectedSemester # 0
  /\ \E k \in 1..Len(view.availableGroups) : ViewStep(handleGroupChange(view, view.availableGroups[k]))

\* the subject panel is rendered once a section is selected
Toggle ==
  /\ view.selectedGroup # ""
  /\ \E k \in 1..Len(view.availableSubjects) : ViewStep(toggleSubject(view, view.availableSubjects[k]))

SelectAll == view.selectedGroup # "" /\ ViewStep(selectAllSubjects(view))

Clear == view.selectedGroup # "" /\ ViewStep(deselectAllSubjects(view))

NextView ==
  \/ Open
  \/ Reload
  \/ SemesterChange
  \/ GroupChange
  \/ Toggle
  \/ SelectAll
  \/ Clear

SpecView == Init /\ [][NextView]_vars

\* the selection of the view: semester, section and checked subjects
Selection(v) ==
  [ semester |-> v.selectedSemester, section |-> v.selectedGroup,
    subjects |-> { v.selectedSubjects[k] : k \in 1..Len(v.selectedSubjects) } ]

\* C24 (as claimed): whatever semester changes, section changes, subject toggles,
\* select-all and clear came before, a reload over unchanged published data restores from
\* the local storage the selection that was in effect just before the reload.
C24_ReloadRestoresSelection ==
  view.opened => Selection(loadData(view)) = Selection(view)

====
